---- MODULE Spec2Model ----
(***************************************************************************)
(* StockQuest team builder and portfolio ledger.                           *)
(*                                                                         *)
(* Two pages implement the team builder: app.js (signed-in, portfolio is   *)
(* written to Firestore through Database) and stockquest.js (portfolio     *)
(* is written to localStorage).  The variable page says which script the   *)
(* browser loaded; the state object of that script is modelled by          *)
(* stocks, selectedStocks, captain, viceCaptain, balance and user.         *)
(*                                                                         *)
(* A stock is a record [symbol, price]; symbols are the integers           *)
(* 1..NumStocks and NULL (0) stands for JavaScript null.  An async         *)
(* function is cut at each await: the part up to the first await runs in   *)
(* the action that starts the call, and each continuation is one action    *)
(* that fires when the awaited store operation settles (ok or rejected).   *)
(***************************************************************************)
EXTENDS Integers, Sequences, FiniteSets, Bags, TLC

\* ---------------------------------------------------------------- bounds
NumStocks == 5          \* stocks returned by /api/trending
BasePrice == 11700      \* the i-th stock of the list costs BasePrice + i * PriceStep
PriceStep == 100
MaxCalls == 2           \* createPortfolio invocations that may overlap
SignificandBits == 4    \* significand of a Number (JavaScript: 53 bits)
MaxPrice == 15          \* largest fractional price, in units of the smallest step
NumQuotes == 3          \* stocks of the list with fractional prices
MaxFetches == 2         \* api.get requests that may be in flight together
MaxTicks == 3           \* times the clock advances
NumVersions == 2        \* different bodies the quote provider answers with
NumVisitors == 2        \* people who sign up or sign in, each in a browser of their own
EarnedPoints == 120     \* points of a leaderboard entry that scoring has already credited
MaxKeys == 3            \* keystrokes in the search box
MaxPicks == 2           \* stocks picked from the grid while it is searched

\* ------------------------------------------------------ program constants
maxStocks == 11
minStocks == 5
InitialBalance == 1000000
Quantity == 10
cacheTimeout == 300000
debounceDelay == 300

NULL == 0
UID == 1
Pages == {"app", "stockquest"}

VARIABLES
  page,            \* which script is loaded: "app" or "stockquest"
  stocks,          \* state.stocks
  filteredStocks,  \* state.filteredStocks
  selectedStocks,  \* state.selectedStocks
  captain,         \* state.captain
  viceCaptain,     \* state.viceCaptain
  balance,         \* state.balance
  user,            \* state.user (app.js only)
  btnDisabled,     \* createPortfolioBtn.disabled
  toast,           \* the last showToast: the message of an error, the type otherwise
  calls,           \* bag of the app.js createPortfolio invocations suspended at an await
  authPending,     \* the authStateChanged listener is awaiting Database.getUser
  dbPortfolios,    \* Firestore collection "portfolios": a bag of documents
  dbUserBalance,   \* field balance of the Firestore document users/<uid>
  dbLeaderboard,   \* Firestore document leaderboard/<uid>: NoEntry or its points
  lsPortfolios,    \* localStorage item stockquest_portfolios
  lsBalance,       \* localStorage item stockquest_balance (NULL: not set)
  finished,        \* how the last createPortfolio call that passed validation returned
  before,          \* the selection as it was when the stock under observation was added
  totalInvested,   \* updateInvestmentProgress: the cost of the selection it computed
  grid,            \* what app.js shows in #stockGrid
  shockers,        \* what dashboard.js shows in #priceShockersContent
  fetches,         \* bag of the api.get requests in flight, each named by its caller
  filter,          \* state.filter
  searchQuery,     \* state.searchQuery
  searchTimeout,   \* the debounce timer of handleSearch is armed
  now,             \* Date.now()
  ticks,           \* how often the clock has advanced
  cache,           \* StockAPI.cache: cacheKey -> << >> or << [data, timestamp] >>
  pending,         \* bag of the cache keys StockAPI.request is fetching
  response,        \* what the last StockAPI.request call that returned gave back
  fetched,         \* per cache key, the last fetched body and when it arrived
  accounts,        \* the uids Firebase Authentication has an account for
  userDocs,        \* Firestore collection "users": uid -> NoEntry or the balance of the document
  location,        \* per visitor, the page window.location shows
  authFlow,        \* per visitor, the promise the login page is waiting for
  raw,             \* the raw stock of a response that is being normalized
  resolved,        \* the last call of a numeric resolver: which, its argument, its result
  normalized,      \* the numeric fields of the stock record made from raw
  timers,          \* the browser's active timers of the page: records [id, due]
  timerHandle,     \* the variable searchTimeout: the id of the last timer set, or NULL
  timerIds,        \* how many timers the page has set
  typed,           \* the keystrokes in the search box since the last pause, and the runs of applyFilters since the last keystroke
  initPc,          \* where app.js init() is: not called, awaiting loadStocks, or returned
  dispatched       \* auth.js has dispatched authStateChanged with the signed-in user

vars == << page, stocks, filteredStocks, selectedStocks, captain, viceCaptain,
           balance, user, btnDisabled, toast, calls, authPending, dbPortfolios,
           dbUserBalance, dbLeaderboard, lsPortfolios, lsBalance, finished,
           before, totalInvested, grid, shockers, fetches, filter, searchQuery,
           searchTimeout, now, ticks, cache, pending, response, fetched,
           accounts, userDocs, location, authFlow, raw, resolved,
           normalized, timers, timerHandle, timerIds, typed, initPc,
           dispatched >>

cacheVars == << now, ticks, cache, pending, response, fetched >>

authVars == << accounts, userDocs, location, authFlow >>

normalizerVars == << raw, resolved, normalized >>

timerVars == << timers, timerHandle, timerIds, typed >>

initVars == << initPc, dispatched >>

catalogueVars == << grid, shockers, fetches, filter, searchQuery, searchTimeout >>

NoEntry == -1

\* ---------------------------------------------------------------- helpers
Range(s) == { s[i] : i \in 1..Len(s) }

Symbols(sel) == { sel[i].symbol : i \in 1..Len(sel) }

\* The stocks the quote provider returns, each at its own price.
PriceOf(i) == BasePrice + i * PriceStep

Catalogue == [ i \in 1..NumStocks |-> [symbol |-> i, price |-> PriceOf(i)] ]

\* Array.prototype.findIndex(s => s.symbol === symbol), 1-based; 0 when there
\* is none (JavaScript: -1).
RECURSIVE FindIndexFrom(_, _, _)
FindIndexFrom(s, i, sym) ==
  IF i > Len(s) THEN 0
  ELSE IF s[i].symbol = sym THEN i
  ELSE FindIndexFrom(s, i + 1, sym)

FindIndex(s, sym) == FindIndexFrom(s, 1, sym)

\* selectedStocks.find(s => s.symbol !== other): the index of the first stock
\* whose symbol differs from other, 0 when there is none.
RECURSIVE FindOtherFrom(_, _, _)
FindOtherFrom(s, i, other) ==
  IF i > Len(s) THEN 0
  ELSE IF s[i].symbol # other THEN i
  ELSE FindOtherFrom(s, i + 1, other)

FindOther(s, other) == FindOtherFrom(s, 1, other)

\* state.stocks.find(..) || state.filteredStocks.find(..) of app.js and
\* state.stocks.find(..) of stockquest.js: the stock, or << >> for undefined.
Lookup(pg, sym) ==
  IF FindIndex(stocks, sym) > 0 THEN << stocks[FindIndex(stocks, sym)] >>
  ELSE IF pg = "app" /\ FindIndex(filteredStocks, sym) > 0
  THEN << filteredStocks[FindIndex(filteredStocks, sym)] >>
  ELSE << >>

\* Array.prototype.splice(index, 1)
Splice(s, i) == [ j \in 1..(Len(s) - 1) |-> IF j < i THEN s[j] ELSE s[j + 1] ]

\* selectedStocks.reduce((sum, s) => sum + (s.price * 10), 0)
RECURSIVE TotalCost(_)
TotalCost(sel) ==
  IF sel = << >> THEN 0
  ELSE TotalCost(SubSeq(sel, 1, Len(sel) - 1)) + sel[Len(sel)].price * Quantity

\* renderTeamList: canCreate, and the value it gives createPortfolioBtn.disabled.
CanCreate(sel, cap, vc) == Len(sel) >= minStocks /\ cap # NULL /\ vc # NULL

RenderTeamList(sel, cap, vc) ==
  IF Len(sel) = 0 THEN TRUE ELSE ~CanCreate(sel, cap, vc)

\* portfolioData of createPortfolio
PortfolioData(sel, cap, vc) ==
  [ stocks      |-> [ i \in 1..Len(sel) |->
                       [symbol |-> sel[i].symbol, price |-> sel[i].price,
                        quantity |-> Quantity] ],
    captain     |-> cap,
    viceCaptain |-> vc,
    invested    |-> TotalCost(sel) ]

NoData == [stocks |-> << >>, captain |-> NULL, viceCaptain |-> NULL, invested |-> 0]

\* The document with its current value starting at zero.
PortfolioDoc_ZeroValue(uid, data) ==
  [ userId |-> uid, stocks |-> data.stocks, captain |-> data.captain,
    viceCaptain |-> data.viceCaptain, invested |-> data.invested,
    currentValue |-> 0, returns |-> 0, points |-> 0,
    status |-> "active" ]

\* Database.createPortfolio: the document added to the collection.
PortfolioDoc(uid, data) ==
  [ userId |-> uid, stocks |-> data.stocks, captain |-> data.captain,
    viceCaptain |-> data.viceCaptain, invested |-> data.invested,
    currentValue |-> data.invested, returns |-> 0, points |-> 0,
    status |-> "active" ]

IdleCall == [pc |-> "idle", data |-> NoData, newBalance |-> 0, wrote |-> {},
             debited |-> 0]

NoCall == [outcome |-> "none", wrote |-> {}]

\* The markup of the page is not part of the sources; the button starts
\* disabled, as canSubmit is false for the empty selection.
InitialBtnDisabled == TRUE

\* StockAPI: the requests the pages make, each with its cacheKey
\* endpoint + JSON.stringify(params).
Requests == { << "/trending", << >> >>, << "/stock", << "name", "q" >> >> }

NoResponse == [key |-> << >>, data |-> 0, fetched |-> FALSE]

CacheInit ==
  /\ now = 0
  /\ ticks = 0
  /\ cache = [ k \in Requests |-> << >> ]
  /\ pending = EmptyBag
  /\ response = NoResponse
  /\ fetched = [ k \in Requests |-> << >> ]

\* auth.js: one visitor per uid, each on the login page with no account.
Visitors == 1..NumVisitors

AuthInit ==
  /\ accounts = {}
  /\ userDocs = [ u \in Visitors |-> NoEntry ]
  /\ location = [ u \in Visitors |-> "login" ]
  /\ authFlow = [ u \in Visitors |-> "idle" ]

\* Normalizer: nothing has been received or normalized.  undefined is the
\* value of a field a payload does not have.
Undefined == [kind |-> "undefined", val |-> 0]

\* The numeric fields of a raw payload that parseStock or extractStockData
\* reads.
RawFields == {"currentPrice", "current_price", "price", "ltp", "lastPrice",
              "close", "previousClose", "pChange", "change_percent",
              "changePercent", "percent_change", "change", "priceChange",
              "dayChange", "volume", "tradedVolume", "totalTradedVolume",
              "traded_volume", "high", "dayHigh", "low", "dayLow",
              "marketCap", "market_cap", "mcap", "pe", "peRatio", "pe_ratio",
              "high52", "week52High", "yearHigh", "low52", "week52Low",
              "yearLow"}

NumericFields == {"price", "change", "volume", "high", "low", "marketCap",
                  "pe", "high52", "low52"}

NoPayload == [ f \in RawFields |-> Undefined ]

NotResolved == [by |-> "none", of |-> Undefined, value |-> Undefined]
NotNormalized == [ f \in NumericFields \cup {"by"} |-> IF f = "by" THEN "none" ELSE Undefined ]

\* Outside the resolvers' own specification no payload is held.
NormInit ==
  /\ raw = << >>
  /\ resolved = << >>
  /\ normalized = << >>

\* No key has been pressed in the search box and no timer is set.
NoKeys == [keys |-> 0, at |-> 0, query |-> "", runs |-> 0, applied |-> ""]

TimerInit ==
  /\ timers = {}
  /\ timerHandle = NULL
  /\ timerIds = 0
  /\ typed = NoKeys

\* The document has not fired DOMContentLoaded and the identity provider
\* has not reported the user yet.
PageInit ==
  /\ initPc = "idle"
  /\ dispatched = FALSE

\* No stock is under observation.
NoSnapshot == [phase |-> "none", symbol |-> NULL, selectedStocks |-> << >>,
               captain |-> NULL, viceCaptain |-> NULL, assigned |-> {}]

Init ==
  /\ page \in Pages
  /\ stocks = Catalogue
  /\ filteredStocks = Catalogue
  /\ selectedStocks = << >>
  /\ captain = NULL
  /\ viceCaptain = NULL
  /\ balance = InitialBalance
  /\ user = NULL
  /\ btnDisabled = InitialBtnDisabled
  /\ toast = "none"
  /\ calls = EmptyBag
  /\ authPending = FALSE
  /\ dbPortfolios = EmptyBag
  /\ dbUserBalance = InitialBalance
  /\ dbLeaderboard = NoEntry
  /\ lsPortfolios = << >>
  /\ lsBalance = NULL
  /\ finished = NoCall
  /\ before = NoSnapshot
  /\ totalInvested = 0
  /\ grid = "initial"
  /\ shockers = "initial"
  /\ fetches = EmptyBag
  /\ filter = "all"
  /\ searchQuery = ""
  /\ searchTimeout = FALSE
  /\ CacheInit
  /\ AuthInit
  /\ NormInit
  /\ TimerInit
  /\ PageInit

ledgerVars == << balance, user, calls, authPending, dbPortfolios, dbUserBalance,
                 dbLeaderboard, lsPortfolios, lsBalance, finished >>

\* ------------------------------------------------------------ team builder
\* addStock without the capacity check.
addStock_NoCapacityCheck(symbol) ==
  LET found == Lookup(page, symbol) IN
  /\ UNCHANGED << page, stocks, filteredStocks, captain, viceCaptain, ledgerVars >>
  /\ IF found = << >>
     THEN UNCHANGED << selectedStocks, btnDisabled, toast >>
     ELSE IF symbol \in Symbols(selectedStocks)
     THEN /\ toast' = "Stock already selected"
          /\ UNCHANGED << selectedStocks, btnDisabled >>
     ELSE /\ selectedStocks' = Append(selectedStocks, found[1])
          /\ toast' = "success"
          /\ btnDisabled' = RenderTeamList(selectedStocks', captain, viceCaptain)

\* addStock without the check for a symbol that is already selected.
addStock_NoDuplicateCheck(symbol) ==
  LET found == Lookup(page, symbol) IN
  /\ UNCHANGED << page, stocks, filteredStocks, captain, viceCaptain, ledgerVars >>
  /\ IF found = << >>
     THEN UNCHANGED << selectedStocks, btnDisabled, toast >>
     ELSE IF Len(selectedStocks) >= maxStocks
     THEN /\ toast' = "Maximum stocks allowed"
          /\ UNCHANGED << selectedStocks, btnDisabled >>
     ELSE /\ selectedStocks' = Append(selectedStocks, found[1])
          /\ toast' = "success"
          /\ btnDisabled' = RenderTeamList(selectedStocks', captain, viceCaptain)

\* addStock(symbol): the same code on both pages, up to the lookup.
addStock(symbol) ==
  LET found == Lookup(page, symbol) IN
  /\ UNCHANGED << page, stocks, filteredStocks, captain, viceCaptain, ledgerVars >>
  /\ IF found = << >>
     THEN UNCHANGED << selectedStocks, btnDisabled, toast >>
     ELSE IF Len(selectedStocks) >= maxStocks
     THEN /\ toast' = "Maximum stocks allowed"
          /\ UNCHANGED << selectedStocks, btnDisabled >>
     ELSE IF symbol \in Symbols(selectedStocks)
     THEN /\ toast' = "Stock already selected"
          /\ UNCHANGED << selectedStocks, btnDisabled >>
     ELSE /\ selectedStocks' = Append(selectedStocks, found[1])
          /\ toast' = "success"
          /\ btnDisabled' = RenderTeamList(selectedStocks', captain, viceCaptain)

\* removeStock leaving the roles of the removed stock in place.
removeStock_KeepsRoles(symbol) ==
  LET index == FindIndex(selectedStocks, symbol) IN
  /\ UNCHANGED << page, stocks, filteredStocks, captain, viceCaptain, ledgerVars >>
  /\ IF index > 0
     THEN /\ selectedStocks' = Splice(selectedStocks, index)
          /\ toast' = "info"
          /\ btnDisabled' = RenderTeamList(selectedStocks', captain, viceCaptain)
     ELSE UNCHANGED << selectedStocks, toast, btnDisabled >>

\* removeStock(symbol): the same code on both pages.
removeStock(symbol) ==
  LET index == FindIndex(selectedStocks, symbol) IN
  /\ UNCHANGED << page, stocks, filteredStocks, ledgerVars >>
  /\ IF index > 0
     THEN /\ selectedStocks' = Splice(selectedStocks, index)
          /\ captain' = IF captain = symbol THEN NULL ELSE captain
          /\ viceCaptain' = IF viceCaptain = symbol THEN NULL ELSE viceCaptain
          /\ toast' = "info"
          /\ btnDisabled' = RenderTeamList(selectedStocks', captain', viceCaptain')
     ELSE UNCHANGED << selectedStocks, captain, viceCaptain, toast, btnDisabled >>

\* toggleStock(symbol): removes a selected stock, adds an unselected one.
toggleStock(symbol) ==
  /\ Lookup(page, symbol) # << >>
  /\ IF FindIndex(selectedStocks, symbol) > 0
     THEN removeStock(symbol)
     ELSE addStock(symbol)

\* clearTeam(): the same code on both pages.
clearTeam ==
  /\ selectedStocks' = << >>
  /\ captain' = NULL
  /\ viceCaptain' = NULL
  /\ toast' = "info"
  /\ btnDisabled' = RenderTeamList(selectedStocks', captain', viceCaptain')
  /\ UNCHANGED << page, stocks, filteredStocks, ledgerVars >>

\* app.js selectCaptain(): the first selected stock that is not vice captain.
selectCaptain ==
  LET available == FindOther(selectedStocks, viceCaptain) IN
  /\ page = "app"
  /\ UNCHANGED << page, stocks, filteredStocks, selectedStocks, viceCaptain,
                  ledgerVars >>
  /\ IF Len(selectedStocks) < 1
     THEN /\ toast' = "Add stocks first"
          /\ UNCHANGED << captain, btnDisabled >>
     ELSE IF available > 0
     THEN /\ captain' = selectedStocks[available].symbol
          /\ toast' = "success"
          /\ btnDisabled' = RenderTeamList(selectedStocks, captain', viceCaptain)
     ELSE UNCHANGED << captain, toast, btnDisabled >>

\* app.js selectViceCaptain(): the first selected stock that is not captain.
selectViceCaptain ==
  LET available == FindOther(selectedStocks, captain) IN
  /\ page = "app"
  /\ UNCHANGED << page, stocks, filteredStocks, selectedStocks, captain,
                  ledgerVars >>
  /\ IF Len(selectedStocks) < 2
     THEN /\ toast' = "Add at least 2 stocks"
          /\ UNCHANGED << viceCaptain, btnDisabled >>
     ELSE IF available > 0
     THEN /\ viceCaptain' = selectedStocks[available].symbol
          /\ toast' = "success"
          /\ btnDisabled' = RenderTeamList(selectedStocks, captain, viceCaptain')
     ELSE UNCHANGED << viceCaptain, toast, btnDisabled >>

\* stockquest.js setCaptain(symbol)
setCaptain(symbol) ==
  /\ page = "stockquest"
  /\ viceCaptain' = IF viceCaptain = symbol THEN NULL ELSE viceCaptain
  /\ captain' = symbol
  /\ toast' = "success"
  /\ btnDisabled' = RenderTeamList(selectedStocks, captain', viceCaptain')
  /\ UNCHANGED << page, stocks, filteredStocks, selectedStocks, ledgerVars >>

\* setViceCaptain without the check against the captain.
setViceCaptain_NoConflictCheck(symbol) ==
  /\ page = "stockquest"
  /\ UNCHANGED << page, stocks, filteredStocks, selectedStocks, captain,
                  ledgerVars >>
  /\ viceCaptain' = symbol
  /\ toast' = "success"
  /\ btnDisabled' = RenderTeamList(selectedStocks, captain, viceCaptain')

\* stockquest.js setViceCaptain(symbol)
setViceCaptain(symbol) ==
  /\ page = "stockquest"
  /\ UNCHANGED << page, stocks, filteredStocks, selectedStocks, captain,
                  ledgerVars >>
  /\ IF captain = symbol
     THEN /\ toast' = "Captain cannot be Vice Captain"
          /\ UNCHANGED << viceCaptain, btnDisabled >>
     ELSE /\ viceCaptain' = symbol
          /\ toast' = "success"
          /\ btnDisabled' = RenderTeamList(selectedStocks, captain, viceCaptain')

\* ------------------------------------------------------------------ ledger
AllWrites == {"portfolio", "balance", "leaderboard"}

\* How a createPortfolio call returned, and which of its store writes had
\* taken effect by then.
Returned(outcome, call) == [outcome |-> outcome, wrote |-> call.wrote]

\* The invocations in flight, and the bag with one of them replaced or gone.
InFlight == BagToSet(calls)

Started(call) == calls (+) SetToBag({call})

Resumed(call, next) == (calls (-) SetToBag({call})) (+) SetToBag({next})

Ended(call) == calls (-) SetToBag({call})

\* The validation without the check of the team size.
Validate_NoMinimum(sel, cap, vc, bal) ==
  IF cap = NULL THEN "Please select a Captain"
  ELSE IF vc = NULL THEN "Please select a Vice Captain"
  ELSE IF TotalCost(sel) > bal THEN "Insufficient balance"
  ELSE "ok"

\* The validation with the balance checked against the price sum, not the cost.
Validate_PriceNotCost(sel, cap, vc, bal) ==
  IF Len(sel) < minStocks THEN "Select at least 5 stocks"
  ELSE IF cap = NULL THEN "Please select a Captain"
  ELSE IF vc = NULL THEN "Please select a Vice Captain"
  ELSE IF TotalCost(sel) > bal * Quantity THEN "Insufficient balance"
  ELSE "ok"

\* The validation both createPortfolio functions start with: the toast of the
\* first check that fails, "ok" when all pass.
Validate(sel, cap, vc, bal) ==
  IF Len(sel) < minStocks THEN "Select at least 5 stocks"
  ELSE IF cap = NULL THEN "Please select a Captain"
  ELSE IF vc = NULL THEN "Please select a Vice Captain"
  ELSE IF TotalCost(sel) > bal THEN "Insufficient balance"
  ELSE "ok"

\* createPortfolio() without the test of state.user.
createPortfolio_NoSignInCheck ==
  LET verdict == Validate(selectedStocks, captain, viceCaptain, balance)
      data == PortfolioData(selectedStocks, captain, viceCaptain)
  IN
  /\ page = "app"
  /\ BagCardinality(calls) < MaxCalls
  /\ UNCHANGED << page, stocks, filteredStocks, selectedStocks, captain,
                  viceCaptain, balance, user, btnDisabled, authPending,
                  dbPortfolios, dbUserBalance, dbLeaderboard, lsPortfolios,
                  lsBalance >>
  /\ IF verdict # "ok"
     THEN /\ toast' = verdict
          /\ UNCHANGED << calls, finished >>
     ELSE /\ calls' = Started([IdleCall EXCEPT !.pc = "createPortfolio", !.data = data])
          /\ UNCHANGED << toast, finished >>

\* app.js createPortfolio() up to its first await.
createPortfolio ==
  LET verdict == Validate(selectedStocks, captain, viceCaptain, balance)
      data == PortfolioData(selectedStocks, captain, viceCaptain)
  IN
  /\ page = "app"
  /\ BagCardinality(calls) < MaxCalls
  /\ UNCHANGED << page, stocks, filteredStocks, selectedStocks, captain,
                  viceCaptain, balance, user, btnDisabled, authPending,
                  dbPortfolios, dbUserBalance, dbLeaderboard, lsPortfolios,
                  lsBalance >>
  /\ IF verdict # "ok"
     THEN /\ toast' = verdict
          /\ UNCHANGED << calls, finished >>
     ELSE IF user = NULL
     THEN /\ toast' = "You must be logged in"
          /\ UNCHANGED << calls, finished >>
     ELSE /\ calls' = Started([IdleCall EXCEPT !.pc = "createPortfolio", !.data = data])
          /\ UNCHANGED << toast, finished >>

\* The continuation debiting the cost of the selection as it is now, not the
\* totalCost the call computed.
createPortfolioSettled_Recomputed(c, ok) ==
  /\ c \in InFlight
  /\ c.pc = "createPortfolio"
  /\ UNCHANGED << page, stocks, filteredStocks, selectedStocks, captain,
                  viceCaptain, user, btnDisabled, authPending, dbUserBalance,
                  dbLeaderboard, lsPortfolios, lsBalance >>
  /\ IF ok
     THEN /\ dbPortfolios' = dbPortfolios (+) SetToBag({PortfolioDoc(user, c.data)})
          /\ balance' = balance - TotalCost(selectedStocks)
          /\ calls' = Resumed(c, [c EXCEPT !.pc = "updateUser",
                                             !.newBalance = balance',
                                             !.debited = TotalCost(selectedStocks),
                                             !.wrote = c.wrote \cup {"portfolio"}])
          /\ UNCHANGED << toast, finished >>
     ELSE /\ toast' = "Failed to save to cloud"
          /\ finished' = Returned("failed", c)
          /\ calls' = Ended(c)
          /\ UNCHANGED << balance, dbPortfolios >>

\* await Database.createPortfolio(..) settles; on success the balance is
\* debited in memory and Database.updateUser is issued with the new balance.
createPortfolioSettled(c, ok) ==
  /\ c \in InFlight
  /\ c.pc = "createPortfolio"
  /\ UNCHANGED << page, stocks, filteredStocks, selectedStocks, captain,
                  viceCaptain, user, btnDisabled, authPending, dbUserBalance,
                  dbLeaderboard, lsPortfolios, lsBalance >>
  /\ IF ok
     THEN /\ dbPortfolios' = dbPortfolios (+) SetToBag({PortfolioDoc(user, c.data)})
          /\ balance' = balance - c.data.invested
          /\ calls' = Resumed(c, [c EXCEPT !.pc = "updateUser",
                                             !.newBalance = balance',
                                             !.debited = c.data.invested,
                                             !.wrote = c.wrote \cup {"portfolio"}])
          /\ UNCHANGED << toast, finished >>
     ELSE /\ toast' = "Failed to save to cloud"
          /\ finished' = Returned("failed", c)
          /\ calls' = Ended(c)
          /\ UNCHANGED << balance, dbPortfolios >>

\* The continuation with a catch block that also clears the selection.
updateUserSettled_ClearsOnFailure(c, ok) ==
  /\ c \in InFlight
  /\ c.pc = "updateUser"
  /\ UNCHANGED << page, stocks, filteredStocks, balance, user, authPending,
                  dbPortfolios, dbLeaderboard, lsPortfolios, lsBalance >>
  /\ IF ok
     THEN /\ dbUserBalance' = c.newBalance
          /\ calls' = Resumed(c, [c EXCEPT !.pc = "updateLeaderboardEntry",
                                             !.wrote = c.wrote \cup {"balance"}])
          /\ UNCHANGED << toast, finished, selectedStocks, captain, viceCaptain,
                          btnDisabled >>
     ELSE /\ toast' = "Failed to save to cloud"
          /\ finished' = Returned("failed", c)
          /\ calls' = Ended(c)
          /\ selectedStocks' = << >>
          /\ captain' = NULL
          /\ viceCaptain' = NULL
          /\ btnDisabled' = RenderTeamList(selectedStocks', captain', viceCaptain')
          /\ UNCHANGED dbUserBalance

\* await Database.updateUser(..) settles; on success
\* Database.updateLeaderboardEntry is issued.
updateUserSettled(c, ok) ==
  /\ c \in InFlight
  /\ c.pc = "updateUser"
  /\ UNCHANGED << page, stocks, filteredStocks, selectedStocks, captain,
                  viceCaptain, balance, user, btnDisabled, authPending,
                  dbPortfolios, dbLeaderboard, lsPortfolios, lsBalance >>
  /\ IF ok
     THEN /\ dbUserBalance' = c.newBalance
          /\ calls' = Resumed(c, [c EXCEPT !.pc = "updateLeaderboardEntry",
                                             !.wrote = c.wrote \cup {"balance"}])
          /\ UNCHANGED << toast, finished >>
     ELSE /\ toast' = "Failed to save to cloud"
          /\ finished' = Returned("failed", c)
          /\ calls' = Ended(c)
          /\ UNCHANGED dbUserBalance

\* The continuation clearing the stocks of the selection but not the roles.
updateLeaderboardEntrySettled_KeepsRoles(c, ok) ==
  /\ c \in InFlight
  /\ c.pc = "updateLeaderboardEntry"
  /\ UNCHANGED << page, stocks, filteredStocks, balance, user, authPending,
                  dbPortfolios, dbUserBalance, lsPortfolios, lsBalance,
                  captain, viceCaptain >>
  /\ IF ok
     THEN /\ dbLeaderboard' = 0
          /\ toast' = "success"
          /\ selectedStocks' = << >>
          /\ btnDisabled' = RenderTeamList(selectedStocks', captain, viceCaptain)
          /\ finished' = Returned("success",
                                  [c EXCEPT !.wrote = @ \cup {"leaderboard"}])
          /\ calls' = Ended(c)
     ELSE /\ toast' = "Failed to save to cloud"
          /\ finished' = Returned("failed", c)
          /\ calls' = Ended(c)
          /\ UNCHANGED << dbLeaderboard, selectedStocks, btnDisabled >>

\* await Database.updateLeaderboardEntry(..) settles; on success the rest of
\* createPortfolio runs: the selection is cleared and the team list rendered.
updateLeaderboardEntrySettled(c, ok) ==
  /\ c \in InFlight
  /\ c.pc = "updateLeaderboardEntry"
  /\ UNCHANGED << page, stocks, filteredStocks, balance, user, authPending,
                  dbPortfolios, dbUserBalance, lsPortfolios, lsBalance >>
  /\ IF ok
     THEN /\ dbLeaderboard' = 0
          /\ toast' = "success"
          /\ selectedStocks' = << >>
          /\ captain' = NULL
          /\ viceCaptain' = NULL
          /\ btnDisabled' = RenderTeamList(selectedStocks', captain', viceCaptain')
          /\ finished' = Returned("success",
                                  [c EXCEPT !.wrote = @ \cup {"leaderboard"}])
          /\ calls' = Ended(c)
     ELSE /\ toast' = "Failed to save to cloud"
          /\ finished' = Returned("failed", c)
          /\ calls' = Ended(c)
          /\ UNCHANGED << dbLeaderboard, selectedStocks, captain, viceCaptain,
                          btnDisabled >>

\* stockquest.js createPortfolio(): no await, the portfolio and the balance go
\* to localStorage.
createPortfolioLocal ==
  LET verdict == Validate(selectedStocks, captain, viceCaptain, balance)
      data == PortfolioData(selectedStocks, captain, viceCaptain)
  IN
  /\ page = "stockquest"
  /\ UNCHANGED << page, stocks, filteredStocks, user, calls, authPending,
                  dbPortfolios, dbUserBalance, dbLeaderboard >>
  /\ IF verdict # "ok"
     THEN /\ toast' = verdict
          /\ UNCHANGED << selectedStocks, captain, viceCaptain, balance,
                          btnDisabled, lsPortfolios, lsBalance, finished >>
     ELSE /\ lsPortfolios' = Append(lsPortfolios, data)
          /\ balance' = balance - data.invested
          /\ lsBalance' = balance'
          /\ toast' = "success"
          /\ selectedStocks' = << >>
          /\ captain' = NULL
          /\ viceCaptain' = NULL
          /\ btnDisabled' = RenderTeamList(selectedStocks', captain', viceCaptain')
          /\ finished' = Returned("success",
                                  [IdleCall EXCEPT !.data = data,
                                                   !.debited = data.invested,
                                                   !.wrote = {"portfolio", "balance"}])

\* app.js authStateChanged listener with a signed-in user, up to its await of
\* Database.getUser.
authStateChanged ==
  /\ page = "app"
  /\ user = NULL
  /\ user' = UID
  /\ authPending' = TRUE
  /\ UNCHANGED << page, stocks, filteredStocks, selectedStocks, captain,
                  viceCaptain, balance, btnDisabled, toast, calls, dbPortfolios,
                  dbUserBalance, dbLeaderboard, lsPortfolios, lsBalance,
                  finished >>

\* await Database.getUser(..) settles: the stored balance replaces state.balance.
getUserSettled(ok) ==
  /\ authPending
  /\ authPending' = FALSE
  /\ balance' = IF ok THEN dbUserBalance ELSE balance
  /\ UNCHANGED << page, stocks, filteredStocks, selectedStocks, captain,
                  viceCaptain, user, btnDisabled, toast, calls, dbPortfolios,
                  dbUserBalance, dbLeaderboard, lsPortfolios, lsBalance,
                  finished >>

\* ------------------------------------------------------------------ inputs
\* The user builds the team in list order: the symbols acted on are the first
\* stock of the list that is not yet selected, the last stock of the team, and
\* a symbol no list contains.
Unselected == { i \in 1..Len(stocks) : stocks[i].symbol \notin Symbols(selectedStocks) }

FirstUnselected ==
  IF Unselected = {} THEN {}
  ELSE { stocks[CHOOSE i \in Unselected : \A j \in Unselected : i <= j].symbol }

FirstOfTeam == IF selectedStocks = << >> THEN {} ELSE { selectedStocks[1].symbol }

LastOfTeam ==
  IF selectedStocks = << >> THEN {} ELSE { selectedStocks[Len(selectedStocks)].symbol }

UnknownSymbol == Len(stocks) + 1

AddInputs == FirstUnselected \cup FirstOfTeam \cup {UnknownSymbol}

RemoveInputs == LastOfTeam \cup FirstUnselected

ToggleInputs == FirstUnselected \cup LastOfTeam \cup {UnknownSymbol}

RoleInputs == FirstOfTeam \cup LastOfTeam \cup FirstUnselected

\* One step of either page.  The sign-in listener runs at page load: its
\* getUser has settled before the user submits a team.  While teams are
\* submitted the user adds the next stock of the list and removes the last
\* stock of the team; SpecTeam below covers the inputs a handler rejects.
Next ==
  /\ UNCHANGED << before, totalInvested, catalogueVars, cacheVars, authVars, normalizerVars,
                  timerVars, initVars >>
  /\ \/ \E s \in FirstUnselected : addStock(s)
     \/ \E s \in LastOfTeam : removeStock(s)
     \/ clearTeam
     \/ selectCaptain
     \/ selectViceCaptain
     \/ \E s \in RoleInputs : setCaptain(s)
     \/ \E s \in RoleInputs : setViceCaptain(s)
     \/ (~authPending /\ createPortfolio)
     \/ \E c \in InFlight, ok \in BOOLEAN : createPortfolioSettled(c, ok)
     \/ \E c \in InFlight, ok \in BOOLEAN : updateUserSettled(c, ok)
     \/ \E c \in InFlight, ok \in BOOLEAN : updateLeaderboardEntrySettled(c, ok)
     \/ createPortfolioLocal
     \/ authStateChanged
     \/ \E ok \in BOOLEAN : getUserSettled(ok)

Spec == Init /\ [][Next]_vars

\* The ledger of a user whose leaderboard entry already has points.
InitRanked ==
  /\ page \in Pages
  /\ stocks = Catalogue
  /\ filteredStocks = Catalogue
  /\ selectedStocks = << >>
  /\ captain = NULL
  /\ viceCaptain = NULL
  /\ balance = InitialBalance
  /\ user = NULL
  /\ btnDisabled = InitialBtnDisabled
  /\ toast = "none"
  /\ calls = EmptyBag
  /\ authPending = FALSE
  /\ dbPortfolios = EmptyBag
  /\ dbUserBalance = InitialBalance
  /\ dbLeaderboard = EarnedPoints
  /\ lsPortfolios = << >>
  /\ lsBalance = NULL
  /\ finished = NoCall
  /\ before = NoSnapshot
  /\ totalInvested = 0
  /\ grid = "initial"
  /\ shockers = "initial"
  /\ fetches = EmptyBag
  /\ filter = "all"
  /\ searchQuery = ""
  /\ searchTimeout = FALSE
  /\ CacheInit
  /\ AuthInit
  /\ NormInit
  /\ TimerInit
  /\ PageInit

SpecRanked == InitRanked /\ [][Next]_vars

\* The same pages over a list of maxStocks + 1 stocks, so that the team can
\* fill up.
TeamCatalogue == [ i \in 1..(maxStocks + 1) |-> [symbol |-> i, price |-> PriceOf(i)] ]

InitTeam ==
  /\ page \in Pages
  /\ stocks = TeamCatalogue
  /\ filteredStocks = TeamCatalogue
  /\ selectedStocks = << >>
  /\ captain = NULL
  /\ viceCaptain = NULL
  /\ balance = InitialBalance
  /\ user = NULL
  /\ btnDisabled = InitialBtnDisabled
  /\ toast = "none"
  /\ calls = EmptyBag
  /\ authPending = FALSE
  /\ dbPortfolios = EmptyBag
  /\ dbUserBalance = InitialBalance
  /\ dbLeaderboard = NoEntry
  /\ lsPortfolios = << >>
  /\ lsBalance = NULL
  /\ finished = NoCall
  /\ before = NoSnapshot
  /\ totalInvested = 0
  /\ grid = "initial"
  /\ shockers = "initial"
  /\ fetches = EmptyBag
  /\ filter = "all"
  /\ searchQuery = ""
  /\ searchTimeout = FALSE
  /\ CacheInit
  /\ AuthInit
  /\ NormInit
  /\ TimerInit
  /\ PageInit

\* The roles go to the first two stocks of the team.
TeamRoleInputs ==
  { selectedStocks[i].symbol : i \in { j \in 1..2 : j <= Len(selectedStocks) } }

\* The team builder and the submission of a user who has not signed in.
NextTeam ==
  /\ UNCHANGED << before, totalInvested, catalogueVars, cacheVars, authVars, normalizerVars,
                  timerVars, initVars >>
  /\ \/ \E s \in AddInputs : addStock(s)
     \/ \E s \in RemoveInputs : removeStock(s)
     \/ \E s \in ToggleInputs : toggleStock(s)
     \/ clearTeam
     \/ selectCaptain
     \/ selectViceCaptain
     \/ \E s \in TeamRoleInputs : setCaptain(s)
     \/ \E s \in TeamRoleInputs : setViceCaptain(s)
     \/ createPortfolio
     \/ createPortfolioLocal

SpecTeam == InitTeam /\ [][NextTeam]_vars

\* A stock is added, given roles and removed again.  before keeps the
\* selection and the roles as they were when the stock was added, and the
\* roles assigned to it since.
Snapshot(s) ==
  [phase |-> "added", symbol |-> s, selectedStocks |-> selectedStocks,
   captain |-> captain, viceCaptain |-> viceCaptain, assigned |-> {}]

NextRoundTrip ==
  /\ UNCHANGED << totalInvested, catalogueVars, cacheVars, authVars, normalizerVars,
                  timerVars, initVars >>
  /\ \/ /\ before.phase # "added"
        /\ before' = NoSnapshot
        /\ \/ \E s \in FirstUnselected : addStock(s)
           \/ \E s \in LastOfTeam : removeStock(s)
           \/ clearTeam
           \/ selectCaptain
           \/ selectViceCaptain
           \/ \E s \in TeamRoleInputs : setCaptain(s)
           \/ \E s \in TeamRoleInputs : setViceCaptain(s)
     \/ /\ before.phase # "added"
        /\ \E s \in FirstUnselected : addStock(s) /\ before' = Snapshot(s)
     \/ /\ before.phase = "added"
        /\ \/ setCaptain(before.symbol)
           \/ setViceCaptain(before.symbol)
           \/ selectCaptain /\ captain' = before.symbol
           \/ selectViceCaptain /\ viceCaptain' = before.symbol
        /\ before' = [before EXCEPT !.assigned =
                        @ \cup (IF captain' = before.symbol THEN {"captain"} ELSE {})
                          \cup (IF viceCaptain' = before.symbol THEN {"viceCaptain"}
                                ELSE {})]
     \/ /\ before.phase = "added"
        /\ removeStock(before.symbol)
        /\ before' = [before EXCEPT !.phase = "removed"]

SpecRoundTrip == Init /\ [][NextRoundTrip]_vars

\* ------------------------------------------------------------- stock list
\* What a catalogue handler leaves alone.
selectionVars == << page, selectedStocks, captain, viceCaptain, btnDisabled,
                    ledgerVars, before, totalInvested, cacheVars, authVars, normalizerVars,
                  timerVars, initVars >>

\* What api.get resolves to, as the handlers tell the cases apart: success
\* with data they recognise, success with data of none of the known shapes,
\* success: false (api.get also gives this for a fetch that rejects), and a
\* body the handler throws on (null, or a known key that holds no array).
ResponseKinds == {"ok", "unrecognised", "failure", "malformed"}

\* The lists /trending answers with.
TrendingLists == { Catalogue, SubSeq(Catalogue, 1, 1) }

\* The stocks /stock answers with: one of the list, one that is new.
SearchResults ==
  { Catalogue[1], [symbol |-> NumStocks + 1, price |-> PriceOf(NumStocks + 1)] }

\* The body is read only when the answer is recognised.
ListsFor(kind) == IF kind = "ok" THEN TrendingLists ELSE { << >> }

StocksFor(kind) == IF kind = "ok" THEN SearchResults ELSE { Catalogue[1] }

\* renderStocks: the cards of filteredStocks, or "No stocks found".
RenderStocks(fs) == IF Len(fs) = 0 THEN "noStocksFound" ELSE "list"

\* The quote data the filters read: odd symbols gained, even symbols lost,
\* and the query "q" is part of the name of the first stock only.
Change(sym) == IF sym % 2 = 1 THEN 1 ELSE -1

NameIncludes(sym, query) == query = "" \/ (query = "q" /\ sym = 1)

Call(fn) == SetToBag({[fn |-> fn]})

\* app.js loadStocks() up to its await.
loadStocks ==
  /\ page = "app"
  /\ BagCardinality(fetches) < MaxFetches
  /\ grid' = "loading"
  /\ fetches' = fetches (+) Call("loadStocks")
  /\ UNCHANGED << selectionVars, stocks, filteredStocks, toast, shockers, filter,
                  searchQuery, searchTimeout >>

\* The continuation replacing the selection along with the list.
loadStocksSettled_ResetsSelection(kind, list) ==
  /\ BagIn([fn |-> "loadStocks"], fetches)
  /\ fetches' = fetches (-) Call("loadStocks")
  /\ UNCHANGED << page, balance, user, calls, authPending, dbPortfolios,
                  dbUserBalance, dbLeaderboard, lsPortfolios, lsBalance, finished,
                  before, totalInvested, toast, shockers, filter, searchQuery,
                  searchTimeout, cacheVars, authVars, normalizerVars,
                  timerVars, initVars >>
  /\ IF kind \in {"ok", "unrecognised"}
     THEN /\ stocks' = IF kind = "ok" THEN list ELSE << >>
          /\ filteredStocks' = stocks'
          /\ grid' = RenderStocks(filteredStocks')
          /\ selectedStocks' = << >>
          /\ captain' = NULL
          /\ viceCaptain' = NULL
          /\ btnDisabled' = RenderTeamList(selectedStocks', captain', viceCaptain')
     ELSE /\ grid' = "emptyState"
          /\ UNCHANGED << stocks, filteredStocks, selectedStocks, captain,
                          viceCaptain, btnDisabled >>

\* await api.get('/trending') settles.  Recognised data replaces the list
\* (data of no known shape gives the empty list) and renderStocks runs;
\* success: false and an exception both end in showEmptyState.
loadStocksSettled(kind, list) ==
  /\ BagIn([fn |-> "loadStocks"], fetches)
  /\ fetches' = fetches (-) Call("loadStocks")
  /\ UNCHANGED << selectionVars, toast, shockers, filter, searchQuery,
                  searchTimeout >>
  /\ IF kind \in {"ok", "unrecognised"}
     THEN /\ stocks' = IF kind = "ok" THEN list ELSE << >>
          /\ filteredStocks' = stocks'
          /\ grid' = RenderStocks(filteredStocks')
     ELSE /\ grid' = "emptyState"
          /\ UNCHANGED << stocks, filteredStocks >>

\* app.js searchAll() up to its await; a query shorter than 2 returns at once.
searchAll(long) ==
  /\ page = "app"
  /\ BagCardinality(fetches) < MaxFetches
  /\ UNCHANGED << selectionVars, stocks, filteredStocks, toast, shockers, filter,
                  searchQuery, searchTimeout >>
  /\ IF long
     THEN /\ grid' = "loading"
          /\ fetches' = fetches (+) Call("searchAll")
     ELSE UNCHANGED << grid, fetches >>

\* await api.get('/stock') settles.
searchAllSettled(kind, stock) ==
  /\ BagIn([fn |-> "searchAll"], fetches)
  /\ fetches' = fetches (-) Call("searchAll")
  /\ UNCHANGED << selectionVars, shockers, filter, searchQuery, searchTimeout >>
  /\ CASE kind = "ok" ->
            /\ stocks' = IF FindIndex(stocks, stock.symbol) > 0 THEN stocks
                         ELSE << stock >> \o stocks
            /\ filteredStocks' = << stock >>
            /\ grid' = RenderStocks(filteredStocks')
            /\ toast' = "success"
       [] kind \in {"unrecognised", "failure"} ->
            /\ grid' = "emptyState"
            /\ UNCHANGED << stocks, filteredStocks, toast >>
       [] kind = "malformed" ->
            /\ toast' = "Search failed"
            /\ grid' = RenderStocks(filteredStocks)
            /\ UNCHANGED << stocks, filteredStocks >>

\* applyFilters(): filteredStocks from stocks, then renderStocks.
applyFilters(query, flt) ==
  LET Keep(st) == /\ NameIncludes(st.symbol, query)
                  /\ flt = "gainers" => Change(st.symbol) > 0
                  /\ flt = "losers" => Change(st.symbol) < 0
  IN /\ filteredStocks' = SelectSeq(stocks, Keep)
     /\ grid' = RenderStocks(filteredStocks')

\* handleSearch(event): stores the query and arms the debounce timer.
handleSearch(query) ==
  /\ page = "app"
  /\ searchQuery' = query
  /\ searchTimeout' = TRUE
  /\ UNCHANGED << selectionVars, stocks, filteredStocks, toast, grid, shockers,
                  fetches, filter >>

\* The debounce timer fires.
searchTimeoutFired ==
  /\ searchTimeout
  /\ searchTimeout' = FALSE
  /\ applyFilters(searchQuery, filter)
  /\ UNCHANGED << selectionVars, stocks, toast, shockers, fetches, filter,
                  searchQuery >>

\* setFilter(filter)
setFilter(flt) ==
  /\ page = "app"
  /\ filter' = flt
  /\ applyFilters(searchQuery, filter')
  /\ UNCHANGED << selectionVars, stocks, toast, shockers, fetches, searchQuery,
                  searchTimeout >>

\* dashboard.js loadPriceShockers() up to its await.
loadPriceShockers ==
  /\ page = "dashboard"
  /\ BagCardinality(fetches) < MaxFetches
  /\ shockers' = "loading"
  /\ fetches' = fetches (+) Call("loadPriceShockers")
  /\ UNCHANGED << selectionVars, stocks, filteredStocks, toast, grid, filter,
                  searchQuery, searchTimeout >>

\* await api.get('/price_shockers') settles.  The function has no try: on a
\* body it throws on, the container keeps what it shows.
loadPriceShockersSettled(kind) ==
  /\ BagIn([fn |-> "loadPriceShockers"], fetches)
  /\ fetches' = fetches (-) Call("loadPriceShockers")
  /\ shockers' = CASE kind = "ok" -> "list"
                   [] kind = "unrecognised" -> "empty"
                   [] kind = "failure" -> "error"
                   [] kind = "malformed" -> shockers
  /\ UNCHANGED << selectionVars, stocks, filteredStocks, toast, grid, filter,
                  searchQuery, searchTimeout >>

InitCatalogue ==
  /\ page \in {"app", "dashboard"}
  /\ stocks = << >>
  /\ filteredStocks = << >>
  /\ selectedStocks = << >>
  /\ captain = NULL
  /\ viceCaptain = NULL
  /\ balance = InitialBalance
  /\ user = NULL
  /\ btnDisabled = InitialBtnDisabled
  /\ toast = "none"
  /\ calls = EmptyBag
  /\ authPending = FALSE
  /\ dbPortfolios = EmptyBag
  /\ dbUserBalance = InitialBalance
  /\ dbLeaderboard = NoEntry
  /\ lsPortfolios = << >>
  /\ lsBalance = NULL
  /\ finished = NoCall
  /\ before = NoSnapshot
  /\ totalInvested = 0
  /\ grid = "initial"
  /\ shockers = "initial"
  /\ fetches = EmptyBag
  /\ filter = "all"
  /\ searchQuery = ""
  /\ searchTimeout = FALSE
  /\ CacheInit
  /\ AuthInit
  /\ NormInit
  /\ TimerInit
  /\ PageInit

\* A step that loads, searches or filters the stock list.
CatalogueStep ==
  \/ loadStocks
  \/ \E kind \in ResponseKinds : \E list \in ListsFor(kind) : loadStocksSettled(kind, list)
  \/ \E long \in BOOLEAN : searchAll(long)
  \/ \E kind \in ResponseKinds : \E stock \in StocksFor(kind) : searchAllSettled(kind, stock)
  \/ \E query \in {"", "q"} : handleSearch(query)
  \/ searchTimeoutFired
  \/ \E flt \in {"all", "gainers", "losers"} : setFilter(flt)
  \/ loadPriceShockers
  \/ \E kind \in ResponseKinds : loadPriceShockersSettled(kind)

\* The team is built from the first stock shown while the list is loaded,
\* searched and filtered.
TeamStep ==
  /\ page = "app"
  /\ UNCHANGED << before, totalInvested, catalogueVars, cacheVars, authVars, normalizerVars,
                  timerVars, initVars >>
  /\ \/ \E s \in FirstUnselected : addStock(s)
     \/ \E s \in LastOfTeam : removeStock(s)
     \/ selectCaptain

NextCatalogue == CatalogueStep \/ TeamStep

SpecCatalogue == InitCatalogue /\ [][NextCatalogue]_vars

\* The stock list alone, with every request in flight settling in the end and
\* the armed debounce timer firing.
CatalogueFairness ==
  /\ WF_vars(\E kind \in ResponseKinds : \E list \in ListsFor(kind) :
               loadStocksSettled(kind, list))
  /\ WF_vars(\E kind \in ResponseKinds : \E stock \in StocksFor(kind) :
               searchAllSettled(kind, stock))
  /\ WF_vars(\E kind \in ResponseKinds : loadPriceShockersSettled(kind))
  /\ WF_vars(searchTimeoutFired)

SpecCatalogueFair == InitCatalogue /\ [][CatalogueStep]_vars /\ CatalogueFairness

\* ---------------------------------------------------------------- StockAPI
allButCache == << page, stocks, filteredStocks, selectedStocks, captain,
                  viceCaptain, btnDisabled, toast, ledgerVars, before,
                  totalInvested, catalogueVars, authVars, normalizerVars,
                  timerVars, initVars >>

\* request without the check of the age of the cached response.
request_NeverExpires(key) ==
  /\ UNCHANGED << allButCache, now, ticks, cache, fetched >>
  /\ IF cache[key] # << >>
     THEN /\ response' = [key |-> key, data |-> cache[key][1].data, fetched |-> FALSE]
          /\ UNCHANGED pending
     ELSE /\ BagCardinality(pending) < MaxFetches
          /\ pending' = pending (+) SetToBag({key})
          /\ UNCHANGED response

\* StockAPI.request(endpoint, params) up to its await of fetch: a cached
\* response younger than cacheTimeout is returned, otherwise the fetch is
\* issued.
request(key) ==
  /\ UNCHANGED << allButCache, now, ticks, cache, fetched >>
  /\ IF cache[key] # << >> /\ now - cache[key][1].timestamp < cacheTimeout
     THEN /\ response' = [key |-> key, data |-> cache[key][1].data, fetched |-> FALSE]
          /\ UNCHANGED pending
     ELSE /\ BagCardinality(pending) < MaxFetches
          /\ pending' = pending (+) SetToBag({key})
          /\ UNCHANGED response

\* The fetch settles: a body is cached with the time it arrived and returned;
\* a rejected fetch or a status that is not ok is thrown on to the caller.
requestSettled(key, ok, data) ==
  /\ BagIn(key, pending)
  /\ pending' = pending (-) SetToBag({key})
  /\ UNCHANGED << allButCache, now, ticks >>
  /\ IF ok
     THEN /\ cache' = [cache EXCEPT ![key] = << [data |-> data, timestamp |-> now] >>]
          /\ fetched' = [fetched EXCEPT ![key] = << [data |-> data, at |-> now] >>]
          /\ response' = [key |-> key, data |-> data, fetched |-> TRUE]
     ELSE /\ response' = [key |-> key, data |-> 0, fetched |-> TRUE]
          /\ UNCHANGED << cache, fetched >>

\* StockAPI.clearCache()
clearCache ==
  /\ cache' = [ k \in Requests |-> << >> ]
  /\ fetched' = [ k \in Requests |-> << >> ]
  /\ UNCHANGED << allButCache, now, ticks, pending, response >>

\* Time passes: a millisecond, or a millisecond less than cacheTimeout.
tick(ms) ==
  /\ ticks < MaxTicks
  /\ ticks' = ticks + 1
  /\ now' = now + ms
  /\ UNCHANGED << allButCache, cache, pending, response, fetched >>

NextCache ==
  \/ \E key \in Requests : request(key)
  \/ \E key \in Requests, ok \in BOOLEAN, data \in 1..NumVersions :
       requestSettled(key, ok, data)
  \/ clearCache
  \/ \E ms \in {1, cacheTimeout - 1} : tick(ms)

SpecCache == Init /\ [][NextCache]_vars

\* ----------------------------------------------------------------- auth.js
allButAuth == << page, stocks, filteredStocks, selectedStocks, captain,
                 viceCaptain, btnDisabled, toast, ledgerVars, before,
                 totalInvested, catalogueVars, cacheVars, normalizerVars,
                  timerVars, initVars >>

OnLoginForm(u) == location[u] \in {"login", "index"}

Awaits(u, promise) == authFlow' = [authFlow EXCEPT ![u] = promise]

\* onAuthSuccess(user)
onAuthSuccess(u) == location' = [location EXCEPT ![u] = "dashboard"]

\* handleSignup(email, password, name) with both fields filled in, up to
\* auth.createUserWithEmailAndPassword.
handleSignup(u) ==
  /\ OnLoginForm(u)
  /\ authFlow[u] = "idle"
  /\ Awaits(u, "createUserWithEmailAndPassword")
  /\ UNCHANGED << allButAuth, accounts, userDocs, location >>

\* createUserWithEmailAndPassword settles: the account now exists and
\* user.updateProfile is called, or (address in use, network) the error is
\* shown.
createUserSettled(u, ok) ==
  /\ authFlow[u] = "createUserWithEmailAndPassword"
  /\ IF ok /\ u \notin accounts
     THEN /\ accounts' = accounts \cup {u}
          /\ Awaits(u, "updateProfile")
     ELSE /\ Awaits(u, "idle")
          /\ UNCHANGED accounts
  /\ UNCHANGED << allButAuth, userDocs, location >>

\* user.updateProfile settles: createNewUserParams(user) runs up to its await
\* of set; a rejection is handled nowhere and the form keeps its spinner.
updateProfileSettled(u, ok) ==
  /\ authFlow[u] = "updateProfile"
  /\ Awaits(u, IF ok THEN "set" ELSE "stalled")
  /\ UNCHANGED << allButAuth, accounts, userDocs, location >>

\* createNewUserParams(user) after its await: the document is stored or the
\* error is logged, and onAuthSuccess is called either way.
createNewUserParamsSettled(u, ok) ==
  /\ authFlow[u] = "set"
  /\ userDocs' = IF ok THEN [userDocs EXCEPT ![u] = InitialBalance] ELSE userDocs
  /\ onAuthSuccess(u)
  /\ Awaits(u, "idle")
  /\ UNCHANGED << allButAuth, accounts >>

\* handleGoogleLogin() up to auth.signInWithPopup; the button is not the
\* submit button setLoading disables.
handleGoogleLogin(u) ==
  /\ OnLoginForm(u)
  /\ authFlow[u] \in {"idle", "stalled"}
  /\ Awaits(u, "signInWithPopup")
  /\ UNCHANGED << allButAuth, accounts, userDocs, location >>

\* signInWithPopup settles: a first federated sign-in creates the account;
\* onAuthSuccess is called with result.user.
signInWithPopupSettled(u, ok) ==
  /\ authFlow[u] = "signInWithPopup"
  /\ Awaits(u, "idle")
  /\ IF ok
     THEN /\ accounts' = accounts \cup {u}
          /\ onAuthSuccess(u)
     ELSE UNCHANGED << accounts, location >>
  /\ UNCHANGED << allButAuth, userDocs >>

\* handleLogin(email, password) with both fields filled in.
handleLogin(u) ==
  /\ OnLoginForm(u)
  /\ authFlow[u] = "idle"
  /\ Awaits(u, "signInWithEmailAndPassword")
  /\ UNCHANGED << allButAuth, accounts, userDocs, location >>

signInSettled(u, ok) ==
  /\ authFlow[u] = "signInWithEmailAndPassword"
  /\ Awaits(u, "idle")
  /\ IF ok /\ u \in accounts
     THEN onAuthSuccess(u)
     ELSE UNCHANGED location
  /\ UNCHANGED << allButAuth, accounts, userDocs >>

\* handleLogout(): auth.signOut() and then index.html
handleLogout(u) ==
  /\ location[u] = "dashboard"
  /\ location' = [location EXCEPT ![u] = "index"]
  /\ UNCHANGED << allButAuth, accounts, userDocs, authFlow >>

NextAuth ==
  \E u \in Visitors :
    \/ handleSignup(u)
    \/ \E ok \in BOOLEAN : createUserSettled(u, ok)
    \/ \E ok \in BOOLEAN : updateProfileSettled(u, ok)
    \/ \E ok \in BOOLEAN : createNewUserParamsSettled(u, ok)
    \/ handleGoogleLogin(u)
    \/ \E ok \in BOOLEAN : signInWithPopupSettled(u, ok)
    \/ handleLogin(u)
    \/ \E ok \in BOOLEAN : signInSettled(u, ok)
    \/ handleLogout(u)

SpecAuth == Init /\ [][NextAuth]_vars

\* ---------------------------------------------------------- search debounce
\* The search box with its timer: handleSearch of app.js and filterStocks of
\* stockquest.js, against the clock and the browser's table of timers.
allButSearch == << page, selectedStocks, captain, viceCaptain, btnDisabled,
                   ledgerVars, before, totalInvested, cacheVars, authVars,
                   normalizerVars, initVars, stocks, toast, shockers, fetches,
                   filter >>

\* stockquest.js renderStocks: the cards of filteredStocks, or showEmptyState.
stockquest_renderStocks(fs) == IF Len(fs) = 0 THEN "emptyState" ELSE "list"

QueryLength(query) == CASE query = "" -> 0 [] query = "q" -> 1 [] OTHER -> 2

\* stockquest.js applyFilters(): a query of two or more characters without a
\* local match shows the hint and returns.
applyFiltersLocal(query, flt) ==
  LET Found(st) == NameIncludes(st.symbol, query)
      Keep(st) == /\ flt = "gainers" => Change(st.symbol) > 0
                  /\ flt = "losers" => Change(st.symbol) < 0
      found == SelectSeq(stocks, Found)
  IN IF query # "" /\ Len(found) = 0 /\ QueryLength(query) >= 2
     THEN /\ grid' = "noLocalMatches"
          /\ UNCHANGED filteredStocks
     ELSE /\ filteredStocks' = SelectSeq(found, Keep)
          /\ grid' = stockquest_renderStocks(filteredStocks')

\* The keystrokes since the last pause of debounceDelay, with this one.
Typed(query) ==
  [ keys |-> IF typed.keys > 0 /\ now - typed.at < debounceDelay
             THEN typed.keys + 1 ELSE 1,
    at |-> now, query |-> query, runs |-> 0, applied |-> typed.applied ]

\* The handler without clearTimeout.
keystroke_NoClearTimeout(query) ==
  /\ timerIds < MaxKeys
  /\ searchQuery' = query
  /\ timerIds' = timerIds + 1
  /\ timerHandle' = timerIds'
  /\ timers' = timers \cup { [id |-> timerIds', due |-> now + debounceDelay] }
  /\ searchTimeout' = TRUE
  /\ typed' = Typed(query)
  /\ UNCHANGED << allButSearch, filteredStocks, grid >>

\* handleSearch(event) / filterStocks(): the query is stored, the timer of
\* the previous keystroke is cleared and a new one is set.
keystroke(query) ==
  /\ timerIds < MaxKeys
  /\ searchQuery' = query
  /\ timerIds' = timerIds + 1
  /\ timerHandle' = timerIds'
  /\ timers' = { t \in timers : t.id # timerHandle }
                 \cup { [id |-> timerIds', due |-> now + debounceDelay] }
  /\ searchTimeout' = TRUE
  /\ typed' = Typed(query)
  /\ UNCHANGED << allButSearch, filteredStocks, grid >>

\* A timer that is due runs its callback: applyFilters().
timerFired(t) ==
  /\ t \in timers
  /\ now >= t.due
  /\ timers' = timers \ {t}
  /\ searchTimeout' = (timers' # {})
  /\ IF page = "app"
     THEN applyFilters(searchQuery, filter)
     ELSE applyFiltersLocal(searchQuery, filter)
  /\ typed' = [typed EXCEPT !.runs = @ + 1, !.applied = searchQuery]
  /\ UNCHANGED << allButSearch, searchQuery, timerHandle, timerIds >>

\* Time passes, not beyond the moment a timer is due: the callback of a due
\* timer runs before later events.
pass(ms) ==
  /\ \A t \in timers : now + ms <= t.due
  /\ tick(ms)

NextDebounce ==
  \/ \E query \in {"", "q", "zz"} : keystroke(query)
  \/ \E t \in timers : timerFired(t)
  \/ \E ms \in {1, debounceDelay - 1} : pass(ms)

SpecDebounce == Init /\ [][NextDebounce]_vars

\* -------------------------------------------------------------- app.js init
allButPage == << before, totalInvested, cacheVars, authVars, normalizerVars,
                 timerVars >>

\* DOMContentLoaded: init() up to the await inside loadStocks.  The balance
\* saved in localStorage, if any, replaces state.balance.
init ==
  /\ page = "app"
  /\ initPc = "idle"
  /\ initPc' = "loadStocks"
  /\ balance' = IF lsBalance # NULL THEN lsBalance ELSE balance
  /\ grid' = "loading"
  /\ fetches' = fetches (+) Call("init")
  /\ UNCHANGED << allButPage, dispatched, page, stocks, filteredStocks,
                  selectedStocks, captain, viceCaptain, user, btnDisabled,
                  toast, calls, authPending, dbPortfolios, dbUserBalance,
                  dbLeaderboard, lsPortfolios, lsBalance, finished, shockers,
                  filter, searchQuery, searchTimeout >>

\* The loadStocks call of init settles (it catches every error) and init
\* registers its listener for authStateChanged.
initResumed(kind, list) ==
  /\ initPc = "loadStocks"
  /\ BagIn([fn |-> "init"], fetches)
  /\ fetches' = fetches (-) Call("init")
  /\ initPc' = "done"
  /\ IF kind \in {"ok", "unrecognised"}
     THEN /\ stocks' = IF kind = "ok" THEN list ELSE << >>
          /\ filteredStocks' = stocks'
          /\ grid' = RenderStocks(filteredStocks')
     ELSE /\ grid' = "emptyState"
          /\ UNCHANGED << stocks, filteredStocks >>
  /\ UNCHANGED << allButPage, dispatched, page, balance, selectedStocks,
                  captain, viceCaptain, user, btnDisabled, toast, calls,
                  authPending, dbPortfolios, dbUserBalance, dbLeaderboard,
                  lsPortfolios, lsBalance, finished, shockers, filter,
                  searchQuery, searchTimeout >>

\* auth.js: onAuthStateChanged reports the signed-in user and the event
\* authStateChanged is dispatched on the document.  It reaches the listener
\* of app.js if init has registered it by then.
authStateDispatched ==
  /\ ~dispatched
  /\ dispatched' = TRUE
  /\ IF page = "app" /\ initPc = "done"
     THEN authStateChanged
     ELSE UNCHANGED << page, stocks, filteredStocks, selectedStocks, captain,
                       viceCaptain, balance, user, btnDisabled, toast, calls,
                       authPending, dbPortfolios, dbUserBalance, dbLeaderboard,
                       lsPortfolios, lsBalance, finished >>
  /\ UNCHANGED << allButPage, catalogueVars, initPc >>

\* The listener's await of Database.getUser settles.
listenerResumed(ok) ==
  /\ getUserSettled(ok)
  /\ UNCHANGED << allButPage, catalogueVars, initVars >>

\* The Retry button of the empty state.
retry ==
  /\ grid = "emptyState"
  /\ loadStocks

InitApp == InitCatalogue /\ page = "app"

NextInit ==
  \/ init
  \/ \E kind \in ResponseKinds : \E list \in ListsFor(kind) : initResumed(kind, list)
  \/ authStateDispatched
  \/ \E ok \in BOOLEAN : listenerResumed(ok)
  \/ retry
  \/ \E kind \in ResponseKinds : \E list \in ListsFor(kind) : loadStocksSettled(kind, list)
  \/ \E query \in {"", "q"} : handleSearch(query)
  \/ searchTimeoutFired
  \/ \E flt \in {"all", "gainers", "losers"} : setFilter(flt)

\* DOMContentLoaded fires, every request in flight settles and the armed
\* debounce timer fires.
InitFairness ==
  /\ WF_vars(init)
  /\ WF_vars(\E kind \in ResponseKinds : \E list \in ListsFor(kind) : initResumed(kind, list))
  /\ WF_vars(\E ok \in BOOLEAN : listenerResumed(ok))
  /\ WF_vars(\E kind \in ResponseKinds : \E list \in ListsFor(kind) :
               loadStocksSettled(kind, list))
  /\ WF_vars(searchTimeoutFired)

SpecInit == InitApp /\ [][NextInit]_vars /\ InitFairness

\* -------------------------------------------------------------- normalizer
\* JavaScript values of a raw quote payload.  A value is [kind, val]: a
\* number counts hundredths (150 is 1.5), a string is the sequence of its
\* characters ("rupee" is the one character U+20B9), an object maps the
\* field names of InnerFields to values that are not objects.
NaN == [kind |-> "NaN", val |-> 0]
Num(h) == [kind |-> "number", val |-> h]
Str(cs) == [kind |-> "string", val |-> cs]
Obj(f) == [kind |-> "object", val |-> f]

Scale == 100

DigitChars == << "0", "1", "2", "3", "4", "5", "6", "7", "8", "9" >>
DigitSet == Range(DigitChars)
DigitVal(c) == (CHOOSE d \in 1..10 : DigitChars[d] = c) - 1

\* !v
Falsy(v) ==
  \/ v.kind \in {"undefined", "NaN"}
  \/ v.kind = "number" /\ v.val = 0
  \/ v.kind = "string" /\ v.val = << >>

\* a || b
Or(a, b) == IF Falsy(a) THEN b ELSE a

\* Index after the run of digits of cs that starts at i.
RECURSIVE RunEnd(_, _)
RunEnd(cs, i) ==
  IF i <= Len(cs) /\ cs[i] \in DigitSet THEN RunEnd(cs, i + 1) ELSE i

\* Index of the first character of cs at or after i that is not white space.
RECURSIVE SkipSpace(_, _)
SkipSpace(cs, i) ==
  IF i <= Len(cs) /\ cs[i] = " " THEN SkipSpace(cs, i + 1) ELSE i

\* The decimal number written by the digits cs[a] .. cs[b - 1].
RECURSIVE IntOf(_, _, _)
IntOf(cs, a, b) ==
  IF a >= b THEN 0 ELSE IntOf(cs, a, b - 1) * 10 + DigitVal(cs[b - 1])

\* parseFloat of a string: leading white space, a sign, digits, a point and
\* digits; what follows is ignored, and without a digit the result is NaN.
\* Fraction digits beyond the hundredths are dropped.
ParseFloatChars(cs) ==
  LET s0 == SkipSpace(cs, 1)
      signed == s0 <= Len(cs) /\ cs[s0] \in {"+", "-"}
      s1 == IF signed THEN s0 + 1 ELSE s0
      e1 == RunEnd(cs, s1)
      dot == e1 <= Len(cs) /\ cs[e1] = "."
      e2 == IF dot THEN RunEnd(cs, e1 + 1) ELSE e1
      f1 == IF dot /\ e2 > e1 + 1 THEN DigitVal(cs[e1 + 1]) ELSE 0
      f2 == IF dot /\ e2 > e1 + 2 THEN DigitVal(cs[e1 + 2]) ELSE 0
      magnitude == IntOf(cs, s1, e1) * Scale + f1 * 10 + f2
  IN  IF e1 = s1 /\ (~dot \/ e2 = e1 + 1)
      THEN NaN
      ELSE Num(IF signed /\ cs[s0] = "-" THEN 0 - magnitude ELSE magnitude)

\* parseFloat(v): String(v) is parsed; an object prints as [object Object].
parseFloat(v) ==
  CASE v.kind = "number" -> v
    [] v.kind = "string" -> ParseFloatChars(v.val)
    [] OTHER -> NaN

\* x * k for a constant k
Times(x, k) == IF x.kind = "number" THEN Num(x.val * k) ELSE NaN

\* str.replace(/[...]/g, '') for the character class chars
Strip(cs, chars) == SelectSeq(cs, LAMBDA c : c \notin chars)

\* str.trim()
RECURSIVE TrimEnd(_)
TrimEnd(cs) ==
  IF cs # << >> /\ cs[Len(cs)] = " " THEN TrimEnd(SubSeq(cs, 1, Len(cs) - 1)) ELSE cs

Trim(cs) == TrimEnd(SubSeq(cs, SkipSpace(cs, 1), Len(cs)))

\* str.toLowerCase().includes(x) for a letter given in both cases
Includes(cs, letters) == \E i \in 1..Len(cs) : cs[i] \in letters

\* str.replace(/x/i, ''): the first occurrence is removed
RemoveFirst(cs, letters) ==
  IF ~Includes(cs, letters) THEN cs
  ELSE LET i == CHOOSE k \in 1..Len(cs) :
                  cs[k] \in letters /\ \A j \in 1..(k - 1) : cs[j] \notin letters
       IN  SubSeq(cs, 1, i - 1) \o SubSeq(cs, i + 1, Len(cs))

\* str.replace(/cr/i, '')
RemoveFirstPair(cs) ==
  LET i == CHOOSE k \in 1..(Len(cs) - 1) :
             /\ cs[k] \in {"C", "c"} /\ cs[k + 1] \in {"R", "r"}
             /\ \A j \in 1..(k - 1) : ~(cs[j] \in {"C", "c"} /\ cs[j + 1] \in {"R", "r"})
  IN  SubSeq(cs, 1, i - 1) \o SubSeq(cs, i + 2, Len(cs))

\* Field of an object value; undefined when the object does not have it.
InnerFields == {"value", "price", "ltp", "raw", "amount", "percent", "pChange"}
Field(v, f) == v.val[f]

\* The character classes of the four cleaning expressions.  firestore.js and
\* stockquest.js hold the rupee sign as the characters of its bytes read in
\* another encoding, none of which is the rupee sign.
ParseNumClass == {"rupee", ",", "%", "+", " "}
DetailClass == {"rupee", ",", "%", "+", " ", "C", "c", "R", "r"}
ParseNumberClass == {",", "%", "+", " "}
ParsePriceClass == {",", " "}
ParseChangeClass == {"%", "+", " "}

\* app.js utils.parseStock: parseNum(val)
parseNum(val) ==
  IF Falsy(val) THEN Num(0)
  ELSE IF val.kind = "number" THEN val
  ELSE IF val.kind = "object"
       THEN parseFloat(Or(Field(val, "value"), Or(Field(val, "price"),
                       Or(Field(val, "ltp"), Num(0)))))
  ELSE Or(ParseFloatChars(Strip(val.val, ParseNumClass)), Num(0))

\* app.js showStockDetail: parseNum(val)
showStockDetail_parseNum(val) ==
  IF Falsy(val) THEN Num(0)
  ELSE IF val.kind = "number" THEN val
  ELSE IF val.kind = "object"
       THEN parseFloat(Or(Field(val, "value"), Or(Field(val, "raw"),
                       Or(Field(val, "amount"), Or(Field(val, "price"),
                       Or(Field(val, "ltp"), Num(0)))))))
  ELSE LET str == Trim(Strip(val.val, DetailClass))
       IN  IF \E i \in 1..(Len(str) - 1) : str[i] \in {"C", "c"} /\ str[i + 1] \in {"R", "r"}
           THEN Times(ParseFloatChars(RemoveFirstPair(str)), 10000000)
           ELSE IF Includes(str, {"L", "l"})
           THEN Times(ParseFloatChars(RemoveFirst(str, {"L", "l"})), 100000)
           ELSE Or(ParseFloatChars(str), Num(0))

\* firestore.js StockAPI.parseNumber(value)
RECURSIVE parseNumber(_)
parseNumber(value) ==
  IF Falsy(value) THEN Num(0)
  ELSE IF value.kind = "number" THEN value
  ELSE IF value.kind = "object"
       THEN parseNumber(Or(Field(value, "value"), Or(Field(value, "price"),
                            Or(Field(value, "ltp"), Num(0)))))
  ELSE Or(ParseFloatChars(Strip(value.val, ParseNumberClass)), Num(0))

\* stockquest.js utils.parsePrice(priceData)
parsePrice(priceData) ==
  IF Falsy(priceData) THEN Num(0)
  ELSE IF priceData.kind = "number" THEN priceData
  ELSE IF priceData.kind = "object"
       THEN parseFloat(Or(Field(priceData, "value"), Or(Field(priceData, "price"),
                       Or(Field(priceData, "ltp"), Num(0)))))
  ELSE Or(ParseFloatChars(Strip(priceData.val, ParsePriceClass)), Num(0))

\* stockquest.js utils.parseChange(changeData)
parseChange(changeData) ==
  IF Falsy(changeData) THEN Num(0)
  ELSE IF changeData.kind = "number" THEN changeData
  ELSE IF changeData.kind = "object"
       THEN parseFloat(Or(Field(changeData, "value"), Or(Field(changeData, "percent"),
                       Or(Field(changeData, "pChange"), Num(0)))))
  ELSE Or(ParseFloatChars(Strip(changeData.val, ParseChangeClass)), Num(0))

allButNormalizer == << page, stocks, filteredStocks, selectedStocks, captain,
                       viceCaptain, btnDisabled, toast, ledgerVars, before,
                       totalInvested, catalogueVars, cacheVars, authVars,
                       timerVars, initVars >>

\* raw.a || raw.b || ... || 0
RECURSIVE FirstOf(_, _)
FirstOf(rawStock, names) ==
  IF names = << >> THEN Num(0)
  ELSE Or(rawStock[Head(names)], FirstOf(rawStock, Tail(names)))

\* app.js utils.parseStock(raw): the numeric fields of its result
parseStock(rawStock) ==
  [ by |-> "parseStock",
    price |-> parseNum(FirstOf(rawStock, << "currentPrice", "current_price",
                                 "price", "ltp", "lastPrice", "close" >>)),
    change |-> parseNum(FirstOf(rawStock, << "pChange", "change_percent",
                                  "changePercent", "percent_change" >>)),
    volume |-> parseNum(FirstOf(rawStock, << "volume", "tradedVolume",
                                  "totalTradedVolume" >>)),
    high |-> parseNum(FirstOf(rawStock, << "high", "dayHigh" >>)),
    low |-> parseNum(FirstOf(rawStock, << "low", "dayLow" >>)),
    marketCap |-> parseNum(FirstOf(rawStock, << "marketCap", "market_cap" >>)),
    pe |-> parseNum(FirstOf(rawStock, << "pe", "peRatio" >>)),
    high52 |-> parseNum(FirstOf(rawStock, << "high52", "week52High", "yearHigh" >>)),
    low52 |-> parseNum(FirstOf(rawStock, << "low52", "week52Low", "yearLow" >>)) ]

\* stockquest.js utils.extractStockData(rawStock): the numeric fields of its
\* result named by NumericFields
extractStockData(rawStock) ==
  [ by |-> "extractStockData",
    price |-> parsePrice(FirstOf(rawStock, << "currentPrice", "current_price",
                                   "price", "ltp", "lastPrice", "close",
                                   "previousClose" >>)),
    change |-> parseChange(FirstOf(rawStock, << "pChange", "change_percent",
                                     "changePercent", "percent_change",
                                     "change" >>)),
    volume |-> FirstOf(rawStock, << "volume", "tradedVolume",
                         "totalTradedVolume", "traded_volume" >>),
    high |-> parsePrice(FirstOf(rawStock, << "high", "dayHigh", "high52" >>)),
    low |-> parsePrice(FirstOf(rawStock, << "low", "dayLow", "low52" >>)),
    marketCap |-> FirstOf(rawStock, << "marketCap", "market_cap", "mcap" >>),
    pe |-> FirstOf(rawStock, << "pe", "peRatio", "pe_ratio" >>),
    high52 |-> FirstOf(rawStock, << "high52", "week52High", "yearHigh" >>),
    low52 |-> FirstOf(rawStock, << "low52", "week52Low", "yearLow" >>) ]

\* ---- the payloads the quote provider may send
RECURSIVE DigitsOf(_)
DigitsOf(n) ==
  IF n < 10 THEN << DigitChars[n + 1] >>
  ELSE DigitsOf(n \div 10) \o << DigitChars[(n % 10) + 1] >>

\* Thousands separators
RECURSIVE Grouped(_)
Grouped(ds) ==
  IF Len(ds) <= 3 THEN ds
  ELSE Grouped(SubSeq(ds, 1, Len(ds) - 3)) \o << "," >> \o SubSeq(ds, Len(ds) - 2, Len(ds))

Fraction(h) == << ".", DigitChars[((h % Scale) \div 10) + 1], DigitChars[(h % 10) + 1] >>

\* "1.50" and "1,234.50" for the number of hundredths h
Plain(h) == DigitsOf(h \div Scale) \o Fraction(h)
WithCommas(h) == Grouped(DigitsOf(h \div Scale)) \o Fraction(h)

Crore == 10000000
Lakh == 100000

ObjectOf(f, v) == Obj([ g \in InnerFields |-> IF g = f THEN v ELSE Undefined ])

\* The magnitudes quoted: 15,000,000 (1.50 Cr), 250,000 (2.50 L) and 1,234.50
Magnitudes == { 150 * Crore, 250 * Lakh, 123450 }

\* The supported encodings of the number of hundredths m.
Encodings(m) ==
  { Num(m), ObjectOf("value", Num(m)),
    Str(<< "rupee" >> \o WithCommas(m)), Str(Plain(m)) }
  \cup (IF m % Crore = 0
        THEN { Str(<< "rupee" >> \o Plain(m \div Crore) \o << " ", "C", "r" >>) }
        ELSE {})
  \cup (IF m % Lakh = 0 /\ m \div Lakh < 1000 * Scale
        THEN { Str(<< "rupee" >> \o Plain(m \div Lakh) \o << " ", "L" >>) }
        ELSE {})

\* Values no number can be read from, and values that are falsy.
Unparsable ==
  { Str(<< "N", "/", "A" >>), Str(<< "-" >>), Str(<< "rupee" >>),
    ObjectOf("value", Str(<< "N", "/", "A" >>)), ObjectOf("amount", Num(Scale)),
    ObjectOf("price", Str(<< "4", "2", "%" >>)) }

FalsyValues == { Undefined, Num(0), Str(<< >>) }

RawValues == UNION { Encodings(m) : m \in Magnitudes } \cup Unparsable \cup FalsyValues

\* Payloads with one field, and payloads with two fields of the price chain.
RawPayloads ==
  { [NoPayload EXCEPT ![f] = v] : f \in RawFields, v \in RawValues }
  \cup { [NoPayload EXCEPT !["currentPrice"] = v, !["price"] = w] :
           v \in FalsyValues \cup Unparsable, w \in RawValues }

\* One of the three resolvers is applied to a field of the payload.
resolve(by, f) ==
  /\ resolved' = [ by |-> by, of |-> raw[f],
                   value |-> CASE by = "parseNum" -> parseNum(raw[f])
                               [] by = "showStockDetail" -> showStockDetail_parseNum(raw[f])
                               [] by = "parseNumber" -> parseNumber(raw[f]) ]
  /\ UNCHANGED << allButNormalizer, raw, normalized >>

\* app.js: a stock of a response goes through utils.parseStock
parseStockApplied ==
  /\ normalized' = parseStock(raw)
  /\ UNCHANGED << allButNormalizer, raw, resolved >>

\* stockquest.js: a stock of a response goes through utils.extractStockData
extractStockDataApplied ==
  /\ normalized' = extractStockData(raw)
  /\ UNCHANGED << allButNormalizer, raw, resolved >>

InitNormalizer ==
  /\ page \in Pages
  /\ stocks = Catalogue
  /\ filteredStocks = Catalogue
  /\ selectedStocks = << >>
  /\ captain = NULL
  /\ viceCaptain = NULL
  /\ balance = InitialBalance
  /\ user = NULL
  /\ btnDisabled = InitialBtnDisabled
  /\ toast = "none"
  /\ calls = EmptyBag
  /\ authPending = FALSE
  /\ dbPortfolios = EmptyBag
  /\ dbUserBalance = InitialBalance
  /\ dbLeaderboard = NoEntry
  /\ lsPortfolios = << >>
  /\ lsBalance = NULL
  /\ finished = NoCall
  /\ before = NoSnapshot
  /\ totalInvested = 0
  /\ grid = "initial"
  /\ shockers = "initial"
  /\ fetches = EmptyBag
  /\ filter = "all"
  /\ searchQuery = ""
  /\ searchTimeout = FALSE
  /\ CacheInit
  /\ AuthInit
  /\ raw \in RawPayloads
  /\ resolved = NotResolved
  /\ normalized = NotNormalized
  /\ TimerInit
  /\ PageInit

NextNormalizer ==
  \/ \E f \in RawFields : resolve("parseNum", f)
  \/ \E f \in RawFields : resolve("showStockDetail", f)
  \/ \E f \in RawFields : resolve("parseNumber", f)
  \/ (page = "app" /\ parseStockApplied)
  \/ (page = "stockquest" /\ extractStockDataApplied)

SpecNormalizer == InitNormalizer /\ [][NextNormalizer]_vars

\* ------------------------------------------------------ Number arithmetic
\* Prices are JavaScript Numbers (parseFloat of the quoted price): binary
\* floating point, each result rounded to the nearest value with
\* SignificandBits significant bits, ties to even.  A Number is counted here
\* in units of the smallest step a price can have, so that a price with a
\* fractional part is an integer count of units.
RECURSIVE BitLength(_)
BitLength(n) == IF n = 0 THEN 0 ELSE 1 + BitLength(n \div 2)

RECURSIVE Pow2(_)
Pow2(k) == IF k = 0 THEN 1 ELSE 2 * Pow2(k - 1)

RoundNumber(n) ==
  IF BitLength(n) <= SignificandBits THEN n
  ELSE LET step == Pow2(BitLength(n) - SignificandBits)
           q == n \div step
           r == n % step
       IN IF 2 * r > step \/ (2 * r = step /\ q % 2 = 1)
          THEN (q + 1) * step
          ELSE q * step

\* selectedStocks.reduce((sum, s) => sum + (s.price * 10), 0) in Number
\* arithmetic: the product and the sum are each rounded.
RECURSIVE NumberTotalCost(_)
NumberTotalCost(sel) ==
  IF sel = << >> THEN 0
  ELSE RoundNumber(NumberTotalCost(SubSeq(sel, 1, Len(sel) - 1))
                   + RoundNumber(sel[Len(sel)].price * Quantity))

\* The prices a quote can have: the Numbers up to MaxPrice.
NumberPrices == { n \in 1..MaxPrice : RoundNumber(n) = n }

\* renderTeamList ends with updateInvestmentProgress, which computes the cost
\* of the selection it shows.
updateInvestmentProgress == totalInvested' = NumberTotalCost(selectedStocks')

InitNumber ==
  /\ page \in Pages
  /\ stocks \in [ 1..NumQuotes -> [symbol : 1..NumQuotes, price : NumberPrices] ]
  /\ \A i \in 1..NumQuotes : stocks[i].symbol = i
  /\ filteredStocks = stocks
  /\ selectedStocks = << >>
  /\ captain = NULL
  /\ viceCaptain = NULL
  /\ balance = InitialBalance
  /\ user = NULL
  /\ btnDisabled = InitialBtnDisabled
  /\ toast = "none"
  /\ calls = EmptyBag
  /\ authPending = FALSE
  /\ dbPortfolios = EmptyBag
  /\ dbUserBalance = InitialBalance
  /\ dbLeaderboard = NoEntry
  /\ lsPortfolios = << >>
  /\ lsBalance = NULL
  /\ finished = NoCall
  /\ before = NoSnapshot
  /\ totalInvested = 0
  /\ grid = "initial"
  /\ shockers = "initial"
  /\ fetches = EmptyBag
  /\ filter = "all"
  /\ searchQuery = ""
  /\ searchTimeout = FALSE
  /\ CacheInit
  /\ AuthInit
  /\ NormInit
  /\ TimerInit
  /\ PageInit

NextNumber ==
  /\ UNCHANGED << before, catalogueVars, cacheVars, authVars, normalizerVars,
                  timerVars, initVars >>
  /\ \/ \E s \in FirstUnselected : addStock(s)
     \/ \E s \in LastOfTeam : removeStock(s)
     \/ clearTeam
  /\ updateInvestmentProgress

SpecNumber == InitNumber /\ [][NextNumber]_vars

\* ================================================================== claims
RECURSIVE PriceSum(_)
PriceSum(rs) ==
  IF rs = << >> THEN 0 ELSE rs[1].price + PriceSum(Tail(rs))

\* The number of stored portfolios of the page: the documents of the Firestore
\* collection on app.js, the entries of the localStorage list on stockquest.js.
NumRecords ==
  IF page = "app" THEN BagCardinality(dbPortfolios) ELSE Len(lsPortfolios)

\* The step stores exactly the one record r on top of those stored before.
StoresOnly(r) ==
  IF page = "app"
  THEN dbPortfolios' = dbPortfolios (+) SetToBag({r})
  ELSE lsPortfolios' = Append(lsPortfolios, r)

NewRecords ==
  IF page = "app" THEN BagToSet(dbPortfolios')
  ELSE { lsPortfolios'[i] : i \in 1..Len(lsPortfolios') }

\* C1: two createPortfolio invocations that overlap on the same selection do
\* not both persist a Portfolio record.
C1_NoDoubleSubmission ==
  \A c, d \in InFlight :
    (c.data = d.data /\ "portfolio" \in c.wrote /\ "portfolio" \in d.wrote)
      => (c = d /\ CopiesIn(c, calls) = 1)

\* C2: the ledger balance is never negative.
C2_BalanceNonNegative == balance >= 0

\* C3: when an app.js createPortfolio call has returned after its validation,
\* either all three store writes have taken effect or none has.
C3_AtomicSubmission ==
  (page = "app" /\ finished.outcome \in {"failed", "success"})
    => finished.wrote \in { {}, AllWrites }

\* C4: captain and viceCaptain, when both are set, are different symbols.
C4_CaptainNotViceCaptain ==
  (captain # NULL /\ viceCaptain # NULL) => captain # viceCaptain

C4_Witness ==
  /\ captain # NULL
  /\ viceCaptain # NULL
  /\ toast = "Captain cannot be Vice Captain"

\* C5: captain and viceCaptain, when set, name a stock of the selection.
C5_RolesInSelection ==
  /\ captain # NULL => captain \in Symbols(selectedStocks)
  /\ viceCaptain # NULL => viceCaptain \in Symbols(selectedStocks)

\* C6: the selection never holds more than maxStocks stocks, and addStock on
\* a full selection changes neither the selection, the roles nor the balance
\* and reports the maximum.
C6_Capacity ==
  [][ /\ Len(selectedStocks') <= maxStocks
      /\ \A s \in FirstUnselected :
           (Len(selectedStocks) >= maxStocks /\ addStock(s))
             => /\ UNCHANGED << selectedStocks, captain, viceCaptain, balance >>
                /\ toast' = "Maximum stocks allowed" ]_vars

C6_Witness ==
  /\ Len(selectedStocks) = maxStocks
  /\ toast = "Maximum stocks allowed"

\* C7: no symbol is selected twice, and addStock of a selected symbol leaves
\* the selection unchanged and reports it.
C7_NoDuplicates ==
  [][ /\ Cardinality(Symbols(selectedStocks')) = Len(selectedStocks')
      /\ \A s \in Symbols(selectedStocks) :
           (Len(selectedStocks) < maxStocks /\ addStock(s))
             => /\ UNCHANGED selectedStocks
                /\ toast' = "Stock already selected" ]_vars

C7_Witness ==
  /\ Len(selectedStocks) >= 2
  /\ toast = "Stock already selected"

\* C8 as stated: a createPortfolio call whose total cost exceeds the balance
\* leaves the balance (in memory and stored) and the stored portfolios
\* unchanged and reports insufficient funds.
C8_Original ==
  [][ (TotalCost(selectedStocks) > balance /\ (createPortfolio \/ createPortfolioLocal))
        => /\ UNCHANGED << balance, dbUserBalance, lsBalance, dbPortfolios,
                           lsPortfolios, calls >>
           /\ toast' = "Insufficient balance" ]_vars

\* C8 amended: such a call leaves the balance and the stored portfolios
\* unchanged; it reports insufficient funds when the team is complete (at
\* least minStocks stocks, captain and vice captain set), and the missing part
\* of the team otherwise.
C8_InsufficientFunds ==
  [][ (TotalCost(selectedStocks) > balance /\ (createPortfolio \/ createPortfolioLocal))
        => /\ UNCHANGED << balance, dbUserBalance, lsBalance, dbPortfolios,
                           lsPortfolios, calls >>
           /\ CanCreate(selectedStocks, captain, viceCaptain)
                => toast' = "Insufficient balance"
           /\ ~CanCreate(selectedStocks, captain, viceCaptain)
                => toast' \in {"Select at least 5 stocks", "Please select a Captain",
                               "Please select a Vice Captain"} ]_vars

C8_Witness ==
  /\ toast = "Insufficient balance"
  /\ CanCreate(selectedStocks, captain, viceCaptain)
  /\ TotalCost(selectedStocks) > balance
  /\ balance >= 0
  /\ NumRecords = 1

C10_NoSubmitBelowMinimum ==
  [][ /\ Len(selectedStocks') < minStocks => btnDisabled'
      /\ (Len(selectedStocks) < minStocks /\ (createPortfolio \/ createPortfolioLocal))
           => /\ UNCHANGED << page, stocks, filteredStocks, selectedStocks,
                              captain, viceCaptain, balance, user, btnDisabled,
                              calls, authPending, dbPortfolios, dbUserBalance,
                              dbLeaderboard, lsPortfolios, lsBalance >>
              /\ toast' = "Select at least 5 stocks" ]_vars

C10_Witness ==
  /\ Len(selectedStocks) < minStocks
  /\ Len(selectedStocks) > 0
  /\ captain # NULL
  /\ viceCaptain # NULL
  /\ btnDisabled
  /\ toast = "Select at least 5 stocks"

\* C11: the create button is enabled exactly when the team is complete (at
\* least minStocks stocks, captain and vice captain set) and its total cost
\* is at most the balance.
C11_CanSubmit ==
  (~btnDisabled) <=> (/\ CanCreate(selectedStocks, captain, viceCaptain)
                      /\ TotalCost(selectedStocks) <= balance)

\* C12: when a store write of an app.js createPortfolio call is rejected, the
\* call reports the failure and leaves selectedStocks, captain and
\* viceCaptain as they are.
C12_FailureKeepsSelection ==
  [][ \A c \in InFlight :
        (\/ createPortfolioSettled(c, FALSE)
         \/ updateUserSettled(c, FALSE)
         \/ updateLeaderboardEntrySettled(c, FALSE))
          => /\ UNCHANGED << selectedStocks, captain, viceCaptain >>
             /\ toast' = "Failed to save to cloud"
             /\ finished'.outcome = "failed" ]_vars

C12_Witness ==
  /\ finished.outcome = "failed"
  /\ "portfolio" \in finished.wrote
  /\ toast = "Failed to save to cloud"
  /\ Len(selectedStocks) >= minStocks
  /\ captain # NULL
  /\ viceCaptain # NULL

\* C13: the step in which a createPortfolio call returns success leaves the
\* selection empty: no selected stocks, no captain, no vice captain.
C13_SuccessClearsSelection ==
  [][ (\/ \E c \in InFlight : updateLeaderboardEntrySettled(c, TRUE)
       \/ /\ createPortfolioLocal
          /\ Validate(selectedStocks, captain, viceCaptain, balance) = "ok")
        => /\ selectedStocks' = << >>
           /\ captain' = NULL
           /\ viceCaptain' = NULL
           /\ finished'.outcome = "success" ]_vars

C13_Witness ==
  /\ finished.outcome = "success"
  /\ toast = "success"
  /\ NumRecords >= 1
  /\ selectedStocks = << >>
  /\ captain = NULL
  /\ viceCaptain = NULL
  /\ btnDisabled

\* C14 as stated: addStock(s) of an unselected s, role assignments to s, then
\* removeStock(s) leave selectedStocks, captain and viceCaptain as they were
\* before the add.
C14_Original ==
  before.phase = "removed"
    => /\ selectedStocks = before.selectedStocks
       /\ captain = before.captain
       /\ viceCaptain = before.viceCaptain

\* C14 amended: selectedStocks is as it was before the add; a role that was
\* not assigned to s in between is as it was before the add, and a role that
\* was assigned to s in between is unset.
C14_AddRemoveRoundTrip ==
  before.phase = "removed"
    => /\ selectedStocks = before.selectedStocks
       /\ captain = IF "captain" \in before.assigned THEN NULL ELSE before.captain
       /\ viceCaptain = IF "viceCaptain" \in before.assigned THEN NULL
                        ELSE before.viceCaptain

C14_Witness ==
  /\ before.phase = "removed"
  /\ "captain" \in before.assigned
  /\ before.captain # NULL
  /\ before.viceCaptain # NULL
  /\ captain = NULL
  /\ viceCaptain = before.viceCaptain
  /\ selectedStocks = before.selectedStocks

\* C15: the total cost computed for the selection is exactly 10 times the sum
\* of the prices of the selected stocks.
C15_CostIsTenTimesPrices ==
  totalInvested = Quantity * PriceSum(selectedStocks)

\* The selection as a record lists it: the same stocks in the same order,
\* each with quantity 10.
Listed(sel) ==
  [ i \in 1..Len(sel) |->
      [symbol |-> sel[i].symbol, price |-> sel[i].price, quantity |-> 10] ]

\* C16: a createPortfolio call takes the selection in order with quantity 10
\* for each stock, and the Portfolio document stored for a call has these
\* stocks, status "active", points 0 and currentValue equal to its invested
\* amount.
C16_RecordShape ==
  [][ /\ calls' # calls /\ BagCardinality(calls') > BagCardinality(calls)
        => \E c \in BagToSet(calls') :
             /\ calls' = calls (+) SetToBag({c})
             /\ c.data.stocks = Listed(selectedStocks)
             /\ c.data.captain = captain
             /\ c.data.viceCaptain = viceCaptain
      /\ dbPortfolios' # dbPortfolios
        => \E r \in BagToSet(dbPortfolios'), c \in InFlight :
             /\ dbPortfolios' = dbPortfolios (+) SetToBag({r})
             /\ r.stocks = c.data.stocks
             /\ r.invested = c.data.invested
             /\ r.status = "active"
             /\ r.points = 0
             /\ r.currentValue = r.invested
      /\ lsPortfolios' # lsPortfolios
        => /\ Len(lsPortfolios') = Len(lsPortfolios) + 1
           /\ lsPortfolios'[Len(lsPortfolios')].stocks = Listed(selectedStocks) ]_vars

C16_Witness ==
  /\ page = "app"
  /\ \E r \in BagToSet(dbPortfolios) :
       /\ Len(r.stocks) = minStocks
       /\ r.status = "active"
       /\ r.currentValue = Quantity * PriceSum(Catalogue)
       /\ r.stocks[minStocks].quantity = 10

\* C17: a step that loads, reloads, searches or filters the stock list, with
\* whatever answer the request gets, leaves selectedStocks, captain,
\* viceCaptain and balance unchanged.
C17_CatalogueKeepsSelection ==
  [][ \/ UNCHANGED << selectedStocks, captain, viceCaptain, balance >>
      \/ ~ CatalogueStep ]_vars

C17_Witness ==
  /\ Len(selectedStocks) >= 2
  /\ captain # NULL
  /\ stocks = << >>
  /\ grid = "emptyState"

\* C18: a region that shows its loading state leaves it once the requests in
\* flight have settled, whatever they answer.
C18_LoadingEnds ==
  /\ (grid = "loading") ~> (grid # "loading")
  /\ (shockers = "loading") ~> (shockers # "loading")

\* C19: a request whose key was fetched successfully less than cacheTimeout
\* ago, with no clearCache since, returns the body of that fetch and issues
\* no fetch; a request whose last fetch is cacheTimeout old or older, was
\* cleared, or never happened issues a fetch.
C19_TimeBoxedCache ==
  [][ \A key \in Requests :
        request(key) =>
          IF fetched[key] # << >> /\ now - fetched[key][1].at < cacheTimeout
          THEN /\ pending' = pending
               /\ response' = [key |-> key, data |-> fetched[key][1].data,
                                fetched |-> FALSE]
          ELSE /\ pending' = pending (+) SetToBag({key})
               /\ response' = response ]_vars

C19_Witness ==
  /\ response.fetched = FALSE
  /\ response.key \in Requests
  /\ fetched[response.key] # << >>
  /\ now - fetched[response.key][1].at = cacheTimeout - 1
  /\ response.data = fetched[response.key][1].data

\* C20: every visitor who is on the dashboard, having got an account by
\* email/password sign-up or by a first Google sign-in, has a stored user
\* document and its balance is 1,000,000.
C20_NewAccountHasBalance ==
  \A u \in Visitors :
    (u \in accounts /\ location[u] = "dashboard")
      => userDocs[u] = InitialBalance

\* C21: each of the three numeric resolvers returns the magnitude m for
\* every supported encoding of m: the number, the object {value: m}, the
\* decorated string, and the string with the suffix Cr (x 10,000,000) or
\* L (x 100,000).
C21_SameValueForEveryEncoding ==
  \A m \in Magnitudes :
    (resolved.by # "none" /\ resolved.of \in Encodings(m))
      => resolved.value = Num(m)

\* C22: every numeric field of a normalized stock record is a number, 0
\* when the source value is absent, falsy or unparsable; never NaN,
\* undefined or a string.
C22_NumericFieldsAreNumbers ==
  normalized.by # "none"
    => \A f \in NumericFields : normalized[f].kind = "number"

\* C23: an assignment that would give one symbol both roles is rejected and
\* leaves captain and viceCaptain as they were: setViceCaptain on the
\* captain and setCaptain on the vice captain.
C23_ConflictRejected ==
  [][ \A s \in TeamRoleInputs :
        ((setViceCaptain(s) /\ captain = s) \/ (setCaptain(s) /\ viceCaptain = s))
          => UNCHANGED << captain, viceCaptain >> ]_vars

\* C24: a successful createPortfolio of a user whose leaderboard entry
\* already has points p leaves the entry with points p.
C24_PointsKept ==
  [][ \A c \in InFlight :
        (updateLeaderboardEntrySettled(c, TRUE) /\ dbLeaderboard # NoEntry)
          => dbLeaderboard' = dbLeaderboard ]_vars

\* C25: the search input is debounced.  At most one timer is pending, and it
\* is the timer of the last keystroke; applyFilters does not run while
\* keystrokes follow each other by less than debounceDelay, and once the
\* delay has passed after the last keystroke it has run exactly once, with
\* the query of that keystroke.
C25_Debounced ==
  /\ Cardinality(timers) <= 1
  /\ \A t \in timers : t.id = timerHandle /\ t.due = typed.at + debounceDelay
  /\ typed.runs <= 1
  /\ typed.runs = 1 => typed.applied = typed.query
  /\ (typed.keys > 0 /\ now < typed.at + debounceDelay) => typed.runs = 0
  /\ (typed.keys > 0 /\ now > typed.at + debounceDelay) => typed.runs = 1

C25_Witness ==
  /\ typed.keys = MaxKeys
  /\ typed.runs = 1
  /\ typed.applied = "q"
  /\ searchQuery = "q"
  /\ timers = {}

\* C26: once the identity provider has reported the signed-in user, app.js
\* eventually has that user in state.user, whether the report came before
\* or after init finished loading the stocks.
C26_UserRecorded == dispatched ~> (user = UID)

\* C27: when createPortfolio has returned for a signed-in user, with success
\* or after a rejected store write, and no other call is in flight,
\* state.balance equals the balance stored in the user's document.
C27_BalanceMatchesStore ==
  (page = "app" /\ user # NULL /\ finished.outcome # "none" /\ calls = EmptyBag)
    => balance = dbUserBalance

\* The ledger over a list of minStocks + 1 stocks: a role can be given to a
\* listed stock while minStocks others are selected.
RecordCatalogue == [ i \in 1..(minStocks + 1) |-> [symbol |-> i, price |-> PriceOf(i)] ]

InitRecords ==
  /\ page \in Pages
  /\ stocks = RecordCatalogue
  /\ filteredStocks = RecordCatalogue
  /\ selectedStocks = << >>
  /\ captain = NULL
  /\ viceCaptain = NULL
  /\ balance = InitialBalance
  /\ user = NULL
  /\ btnDisabled = InitialBtnDisabled
  /\ toast = "none"
  /\ calls = EmptyBag
  /\ authPending = FALSE
  /\ dbPortfolios = EmptyBag
  /\ dbUserBalance = InitialBalance
  /\ dbLeaderboard = NoEntry
  /\ lsPortfolios = << >>
  /\ lsBalance = NULL
  /\ finished = NoCall
  /\ before = NoSnapshot
  /\ totalInvested = 0
  /\ grid = "initial"
  /\ shockers = "initial"
  /\ fetches = EmptyBag
  /\ filter = "all"
  /\ searchQuery = ""
  /\ searchTimeout = FALSE
  /\ CacheInit
  /\ AuthInit
  /\ NormInit
  /\ TimerInit
  /\ PageInit

SpecRecords == InitRecords /\ [][Next]_vars

\* C28: every stored Portfolio record has between minStocks and maxStocks
\* stocks with pairwise distinct symbols, and its captain and viceCaptain
\* are two different symbols of its stocks.
WellFormed(r) ==
  /\ Len(r.stocks) >= minStocks
  /\ Len(r.stocks) <= maxStocks
  /\ \A i, j \in 1..Len(r.stocks) : i # j => r.stocks[i].symbol # r.stocks[j].symbol
  /\ r.captain # r.viceCaptain
  /\ \E i \in 1..Len(r.stocks) : r.stocks[i].symbol = r.captain
  /\ \E i \in 1..Len(r.stocks) : r.stocks[i].symbol = r.viceCaptain

C28_RecordsWellFormed ==
  /\ \A r \in BagToSet(dbPortfolios) : WellFormed(r)
  /\ \A i \in 1..Len(lsPortfolios) : WellFormed(lsPortfolios[i])

\* ------------------------------------------------ stockquest.js stock list
\* A stock of another symbol under the name of the first stock of the list.
Namesake == NumStocks + 2

NameOf(sym) == IF sym = Namesake THEN 1 ELSE sym

\* The stocks /stock answers with: one of the list, one that is new, and the
\* namesake of a listed one.
StockResults ==
  SearchResults \cup { [symbol |-> Namesake, price |-> PriceOf(Namesake)] }

\* The items /industry_search answers with.
IndustryLists ==
  { << Catalogue[2], [symbol |-> NumStocks + 1, price |-> PriceOf(NumStocks + 1)] >> }

\* state.stocks.findIndex(..) of searchStockByName: by symbol or by name.
Existing(stock) ==
  \E i \in 1..Len(stocks) :
     \/ stocks[i].symbol = stock.symbol
     \/ NameOf(stocks[i].symbol) = NameOf(stock.symbol)

\* stockquest.js loadStocks() up to its await.
stockquest_loadStocks ==
  /\ page = "stockquest"
  /\ BagCardinality(fetches) < MaxFetches
  /\ grid' = "loading"
  /\ fetches' = fetches (+) Call("stockquest.loadStocks")
  /\ UNCHANGED << selectionVars, stocks, filteredStocks, toast, shockers, filter,
                  searchQuery, searchTimeout >>

\* await api.get('/trending') settles.
stockquest_loadStocksSettled(kind, list) ==
  /\ BagIn([fn |-> "stockquest.loadStocks"], fetches)
  /\ fetches' = fetches (-) Call("stockquest.loadStocks")
  /\ UNCHANGED << selectionVars, toast, shockers, filter, searchQuery,
                  searchTimeout >>
  /\ IF kind \in {"ok", "unrecognised"}
     THEN /\ stocks' = IF kind = "ok" THEN list ELSE << >>
          /\ filteredStocks' = stocks'
          /\ grid' = stockquest_renderStocks(filteredStocks')
     ELSE /\ grid' = "emptyState"
          /\ UNCHANGED << stocks, filteredStocks >>

\* searchStockByName(query) up to its first await.
searchStockByName ==
  /\ page = "stockquest"
  /\ BagCardinality(fetches) < MaxFetches
  /\ grid' = "loading"
  /\ fetches' = fetches (+) Call("searchStockByName")
  /\ UNCHANGED << selectionVars, stocks, filteredStocks, toast, shockers, filter,
                  searchQuery, searchTimeout >>

\* await api.get('/stock') settles: the stock found is shown, and joins
\* state.stocks unless a stock of its symbol or name is there; without a
\* stock the function goes on to /industry_search.
stockSettled(found, stock) ==
  /\ BagIn([fn |-> "searchStockByName"], fetches)
  /\ UNCHANGED << selectionVars, shockers, filter, searchQuery, searchTimeout >>
  /\ IF found
     THEN /\ fetches' = fetches (-) Call("searchStockByName")
          /\ stocks' = IF Existing(stock) THEN stocks ELSE << stock >> \o stocks
          /\ filteredStocks' = << stock >>
          /\ grid' = stockquest_renderStocks(filteredStocks')
          /\ toast' = "success"
     ELSE /\ fetches' = (fetches (-) Call("searchStockByName"))
                          (+) Call("industry_search")
          /\ UNCHANGED << stocks, filteredStocks, grid, toast >>

\* await api.get('/industry_search') settles: the items found are shown;
\* no items, success: false and an exception end in showEmptyState.
industrySearchSettled(kind, items) ==
  /\ BagIn([fn |-> "industry_search"], fetches)
  /\ fetches' = fetches (-) Call("industry_search")
  /\ UNCHANGED << selectionVars, stocks, shockers, filter, searchQuery,
                  searchTimeout >>
  /\ IF kind = "ok"
     THEN /\ filteredStocks' = items
          /\ grid' = stockquest_renderStocks(filteredStocks')
          /\ toast' = "success"
     ELSE /\ grid' = "emptyState"
          /\ UNCHANGED << filteredStocks, toast >>

\* filterStocks(): stores the query and arms the debounce timer.
filterStocks(query) ==
  /\ page = "stockquest"
  /\ searchQuery' = query
  /\ searchTimeout' = TRUE
  /\ UNCHANGED << selectionVars, stocks, filteredStocks, toast, grid, shockers,
                  fetches, filter >>

\* The debounce timer of filterStocks fires.
filterStocksTimeout ==
  /\ page = "stockquest"
  /\ searchTimeout
  /\ searchTimeout' = FALSE
  /\ applyFiltersLocal(searchQuery, filter)
  /\ UNCHANGED << selectionVars, stocks, toast, shockers, fetches, filter,
                  searchQuery >>

\* stockquest.js setFilter(filter)
stockquest_setFilter(flt) ==
  /\ page = "stockquest"
  /\ filter' = flt
  /\ applyFiltersLocal(searchQuery, filter')
  /\ UNCHANGED << selectionVars, stocks, toast, shockers, fetches, searchQuery,
                  searchTimeout >>

\* The first card of the grid.
FirstShown == IF filteredStocks = << >> THEN {} ELSE { filteredStocks[1].symbol }

\* A click on the add button of a card, or on the one of the detail modal.
click(symbol) ==
  /\ Len(selectedStocks) < MaxPicks \/ symbol \in Symbols(selectedStocks)
  /\ toggleStock(symbol)
  /\ UNCHANGED << before, totalInvested, catalogueVars, cacheVars, authVars,
                  normalizerVars, timerVars, initVars >>

InitShown ==
  /\ page \in {"app", "stockquest"}
  /\ stocks = << >>
  /\ filteredStocks = << >>
  /\ selectedStocks = << >>
  /\ captain = NULL
  /\ viceCaptain = NULL
  /\ balance = InitialBalance
  /\ user = NULL
  /\ btnDisabled = InitialBtnDisabled
  /\ toast = "none"
  /\ calls = EmptyBag
  /\ authPending = FALSE
  /\ dbPortfolios = EmptyBag
  /\ dbUserBalance = InitialBalance
  /\ dbLeaderboard = NoEntry
  /\ lsPortfolios = << >>
  /\ lsBalance = NULL
  /\ finished = NoCall
  /\ before = NoSnapshot
  /\ totalInvested = 0
  /\ grid = "initial"
  /\ shockers = "initial"
  /\ fetches = EmptyBag
  /\ filter = "all"
  /\ searchQuery = ""
  /\ searchTimeout = FALSE
  /\ CacheInit
  /\ AuthInit
  /\ NormInit
  /\ TimerInit
  /\ PageInit

\* The list is loaded, filtered and searched on either page, and the first
\* stock shown is clicked.
NextShown ==
  \/ loadStocks
  \/ \E kind \in ResponseKinds : \E list \in ListsFor(kind) : loadStocksSettled(kind, list)
  \/ \E long \in BOOLEAN : searchAll(long)
  \/ \E kind \in ResponseKinds : \E stock \in StocksFor(kind) : searchAllSettled(kind, stock)
  \/ \E query \in {"", "q"} : handleSearch(query)
  \/ page = "app" /\ searchTimeoutFired
  \/ \E flt \in {"all", "gainers", "losers"} : setFilter(flt)
  \/ stockquest_loadStocks
  \/ \E kind \in ResponseKinds : \E list \in ListsFor(kind) :
        stockquest_loadStocksSettled(kind, list)
  \/ searchStockByName
  \/ \E found \in BOOLEAN, stock \in StockResults : stockSettled(found, stock)
  \/ \E kind \in ResponseKinds, items \in IndustryLists :
        industrySearchSettled(kind, items)
  \/ \E query \in {"", "q", "zz"} : filterStocks(query)
  \/ filterStocksTimeout
  \/ \E flt \in {"all", "gainers", "losers"} : stockquest_setFilter(flt)
  \/ \E s \in FirstShown : click(s)

SpecShown == InitShown /\ [][NextShown]_vars

\* C29: after any sequence of load, filter and search operations every stock
\* of filteredStocks can be added: while the selection is below capacity and
\* does not hold the stock, toggleStock on its symbol has a step, and the step
\* puts the symbol into selectedStocks.
C29_ShownCanBeAdded ==
  \A s \in Symbols(filteredStocks) :
     (Len(selectedStocks) < maxStocks /\ s \notin Symbols(selectedStocks))
       => ENABLED (toggleStock(s) /\ s \in Symbols(selectedStocks'))

\* The same on the page of app.js alone.
C29_ShownCanBeAddedInApp == page = "app" => C29_ShownCanBeAdded

\* C30: createPortfolio invoked in app.js while no user is signed in starts no
\* write to the store and writes nothing itself, and leaves balance,
\* selectedStocks, captain and viceCaptain as they are.
C30_SignedOutWritesNothing ==
  [][ (page = "app" /\ user = NULL /\ createPortfolio)
        => /\ calls' = calls
           /\ UNCHANGED << dbPortfolios, dbUserBalance, dbLeaderboard,
                           lsPortfolios, lsBalance, balance, selectedStocks,
                           captain, viceCaptain >> ]_vars

\* A valid team was submitted without a signed-in user.
C30_Witness ==
  /\ page = "app"
  /\ user = NULL
  /\ toast = "You must be logged in"
  /\ Validate(selectedStocks, captain, viceCaptain, balance) = "ok"

====
